---- MODULE Spec2Model ----
(***************************************************************************)
(* Secure pairing and session channel of the PearPass desktop host:        *)
(* identity store and pairing manager (services/security/appIdentity.js),  *)
(* session manager (services/security/sessionManager.js) and the native-   *)
(* messaging handlers (services/handlers/SecurityHandlers.js).             *)
(*                                                                         *)
(* Values.  Random values (identity keypairs, pairing secrets) are         *)
(* numbered in the order they are generated: 0 stands for "absent" (null,  *)
(* undefined or the empty string ''), n >= 1 for the n-th one.  A          *)
(* signature is the pair of its signer and the signed message, a secretbox *)
(* ciphertext the triple of key, nonce and plaintext, and a hash is its    *)
(* preimage (no collisions).                                               *)
(***************************************************************************)
EXTENDS Integers, Sequences, FiniteSets, TLC

\* ------------------------------------------------------------------ bounds
\* Identities (one Ed25519 and one X25519 keypair each) ever generated.
MaxIdentities == 2
\* Pairing secrets ever generated and persisted.
MaxSecrets == 2
\* Sessions ever created (session ids are random and never reused).
MaxSessions == 2
\* Sessions ever created where only their number matters (reset).
MaxPairingSessions == 1
\* Largest sequence number exercised.
MaxSeq == 2

\* ------------------------------------------------------------- value sets
\* Ed25519 public keys an extension may present (base64 of 32 bytes).
PeerKeys == {"E", "F"}
\* X25519 ephemeral public keys an extension may present.
ExtEphKeys == {"X"}
\* Plaintexts.
Plaintexts == {"hello", "bye"}

PAIRING_STATES == [PENDING |-> "PENDING", CONFIRMED |-> "CONFIRMED"]

\* nm.client.data holding '' or nothing: getClientData returns null.
NoClientData == [publicKey |-> "", pairingState |-> ""]

\* The `client` argument of the appIdentity functions: the vault client, or
\* undefined when the caller passes no argument.
TheClient == "client"
Undefined == "undefined"

VARIABLES
    kv,               \* encrypted KV store of the vault: nm.identity.*, nm.client.data
    locked,           \* the vault is locked: encryptionGet yields null, encryptionAdd rejects
    MEMORY_IDENTITY,  \* appIdentity.js module variable (0 = null)
    localStorage,     \* LOCAL_STORAGE_KEYS.NM_CLIENT_PUBLIC_KEY ("" = no item)
    sessions,         \* session table: sessionId -> session
    idCount,          \* identities generated so far
    secretCount,      \* pairing secrets generated and persisted so far
    sidCount,         \* session ids handed out so far
    nmEnabled,        \* getNativeMessagingEnabled()
    shownCode,        \* the pairing code the desktop app last displayed
    pending,          \* peer key read by a beginHandshake suspended at its
                      \* next KV await ("" = no such request)
    pinning,          \* keys of the nmGetAppIdentity requests suspended after
                      \* their token check
    last,             \* the last request: operation and outcome
    deviceList,       \* DeviceList: its props and the last click on it
    aboutContent      \* AboutContent: its React state and the feedback in flight

vars == <<kv, locked, MEMORY_IDENTITY, localStorage, sessions, idCount,
          secretCount, sidCount, nmEnabled, shownCode, pending, pinning, last,
          deviceList, aboutContent>>

\* The state of the two React components.
components == <<deviceList, aboutContent>>

\* The mutable program state threaded through a handler.
World == [kv |-> kv, mem |-> MEMORY_IDENTITY, cache |-> localStorage,
          sessions |-> sessions, ids |-> idCount, secrets |-> secretCount,
          sid |-> sidCount]

Commit(w) ==
    /\ kv' = w.kv
    /\ MEMORY_IDENTITY' = w.mem
    /\ localStorage' = w.cache
    /\ sessions' = w.sessions
    /\ idCount' = w.ids
    /\ secretCount' = w.secrets
    /\ sidCount' = w.sid

\* ---------------------------------------------------------------- KV store
ENC_KEY_ED25519 == "ed25519"
ENC_KEY_X25519 == "x25519"
ENC_KEY_CREATION_DATE == "creationDate"
ENC_KEY_CLIENT_DATA == "clientData"
ENC_KEY_PAIRING_SECRET == "pairingSecret"

EmptyKv == [ed25519 |-> 0, x25519 |-> 0, creationDate |-> 0,
            clientData |-> NoClientData, pairingSecret |-> 0]

KvNull(key) == IF key = ENC_KEY_CLIENT_DATA THEN NoClientData ELSE 0

\* normalizeEncryptionGet(await client.encryptionGet(key).catch(() => null)):
\* a locked vault yields null, '' is normalised to null.
encryptionGet(w, lk, key) == IF lk THEN KvNull(key) ELSE w.kv[key]

\* client.encryptionAdd(key, value): rejects while the vault is locked.
encryptionAddOk(lk) == ~lk
encryptionAdd(w, lk, key, value) ==
    IF lk THEN w ELSE [w EXCEPT !.kv[key] = value]

\* --------------------------------------------------------- pairing secret
\* getOrCreatePairingSecret: load the secret, or draw and persist a new one;
\* a failed write throws PairingSecretPersistenceFailed.  Stored secrets are
\* only ever written here, so the 32-byte length check passes.  Values are
\* the secret's draw number, standing for its base64 text.
getOrCreatePairingSecret(w, lk) ==
    LET stored == encryptionGet(w, lk, ENC_KEY_PAIRING_SECRET)
        fresh  == w.secrets + 1
        w1     == [w EXCEPT !.secrets = fresh]
    IN  IF stored # 0
        THEN [w |-> w, code |-> "ok", val |-> stored]
        ELSE IF encryptionAddOk(lk)
             THEN [w |-> encryptionAdd(w1, lk, ENC_KEY_PAIRING_SECRET, fresh),
                   code |-> "ok", val |-> fresh]
             \* the secret generated is dropped with the error and not counted
             ELSE [w |-> w, code |-> "PairingSecretPersistenceFailed", val |-> 0]

\* generateAndPersistIdentity keeping nothing in memory when a write fails.
generateAndPersistIdentity_NotRetained(w, lk) ==
    LET n  == w.ids + 1
        w0 == [w EXCEPT !.ids = n]
        w1 == encryptionAdd(w0, lk, ENC_KEY_ED25519, n)
        w2 == encryptionAdd(w1, lk, ENC_KEY_X25519, n)
        w3 == encryptionAdd(w2, lk, ENC_KEY_CREATION_DATE, n)
    IN  [w |-> w3, code |-> "ok",
         val |-> [ed25519PublicKey |-> n, x25519PublicKey |-> n,
                  creationDate |-> n, generated |-> TRUE]]

\* ---------------------------------------------------------------- identity
\* generateAndPersistIdentity: one Ed25519 and one X25519 keypair (both
\* carry the number of the identity), three independent writes; if any write
\* failed the full identity is kept in MEMORY_IDENTITY.
generateAndPersistIdentity(w, lk) ==
    LET n  == w.ids + 1
        w0 == [w EXCEPT !.ids = n]
        w1 == encryptionAdd(w0, lk, ENC_KEY_ED25519, n)
        w2 == encryptionAdd(w1, lk, ENC_KEY_X25519, n)
        w3 == encryptionAdd(w2, lk, ENC_KEY_CREATION_DATE, n)
        persisted == encryptionAddOk(lk)
        w4 == IF persisted THEN w3 ELSE [w3 EXCEPT !.mem = n]
    IN  [w |-> w4, code |-> "ok",
         val |-> [ed25519PublicKey |-> n, x25519PublicKey |-> n,
                  creationDate |-> n, generated |-> TRUE]]

\* new Date().toISOString(): the date returned when none is stored
NowDate == -1

\* getOrCreateIdentity.  ensureEncryptionInitialized changes nothing that is
\* modelled; an error of getOrCreatePairingSecret is swallowed.
getOrCreateIdentity(w, lk) ==
    LET w1   == getOrCreatePairingSecret(w, lk).w
        ed   == encryptionGet(w1, lk, ENC_KEY_ED25519)
        x    == encryptionGet(w1, lk, ENC_KEY_X25519)
        date == encryptionGet(w1, lk, ENC_KEY_CREATION_DATE)
    IN  IF (ed = 0 \/ x = 0) /\ w1.mem # 0
        THEN [w |-> w1, code |-> "ok",
              val |-> [ed25519PublicKey |-> w1.mem, x25519PublicKey |-> w1.mem,
                       creationDate |-> w1.mem, generated |-> FALSE]]
        ELSE IF ed = 0 \/ x = 0
             THEN generateAndPersistIdentity(w1, lk)
             ELSE [w |-> w1, code |-> "ok",
                   val |-> [ed25519PublicKey |-> ed, x25519PublicKey |-> x,
                            creationDate |-> IF date = 0 THEN NowDate ELSE date,
                            generated |-> FALSE]]

\* The vault's state at await i of a call during which the vault changes
\* state once, before await p: lk before, the opposite from there on.
LockAt(lk, p, i) == IF i < p THEN lk ELSE ~lk

\* getOrCreateIdentity while the vault locks or unlocks during the call: the
\* awaits are the pairing-secret step (0), the reads of the three keys (1)
\* and the writes of the Ed25519 blob (2), of the X25519 blob (3) and of the
\* creation date (4), each write caught on its own.
getOrCreateIdentityAcross(w, lk, p) ==
    LET w1   == getOrCreatePairingSecret(w, LockAt(lk, p, 0)).w
        ed   == encryptionGet(w1, LockAt(lk, p, 1), ENC_KEY_ED25519)
        x    == encryptionGet(w1, LockAt(lk, p, 1), ENC_KEY_X25519)
        date == encryptionGet(w1, LockAt(lk, p, 1), ENC_KEY_CREATION_DATE)
        n    == w1.ids + 1
        g0   == [w1 EXCEPT !.ids = n]
        g1   == encryptionAdd(g0, LockAt(lk, p, 2), ENC_KEY_ED25519, n)
        g2   == encryptionAdd(g1, LockAt(lk, p, 3), ENC_KEY_X25519, n)
        g3   == encryptionAdd(g2, LockAt(lk, p, 4), ENC_KEY_CREATION_DATE, n)
        persisted == /\ encryptionAddOk(LockAt(lk, p, 2))
                     /\ encryptionAddOk(LockAt(lk, p, 3))
                     /\ encryptionAddOk(LockAt(lk, p, 4))
        g4   == IF persisted THEN g3 ELSE [g3 EXCEPT !.mem = n]
    IN  IF (ed = 0 \/ x = 0) /\ w1.mem # 0
        THEN [w |-> w1, code |-> "ok",
              val |-> [ed25519PublicKey |-> w1.mem, x25519PublicKey |-> w1.mem,
                       creationDate |-> w1.mem, generated |-> FALSE]]
        ELSE IF ed = 0 \/ x = 0
             THEN [w |-> g4, code |-> "ok",
                   val |-> [ed25519PublicKey |-> n, x25519PublicKey |-> n,
                            creationDate |-> n, generated |-> TRUE]]
             ELSE [w |-> w1, code |-> "ok",
                   val |-> [ed25519PublicKey |-> ed, x25519PublicKey |-> x,
                            creationDate |-> IF date = 0 THEN NowDate ELSE date,
                            generated |-> FALSE]]

\* ------------------------------------------------------------ pairing code
PAIRING_CODE_TAG == "pearpass/pairingcode/v1"

\* A 32-byte value cut at the offsets 9 and 23, where the writes of
\* getPairingCode cut it: a = bytes 0..8, b = bytes 9..22, c = bytes 23..31.
Bytes32(n) == [a |-> n, b |-> n, c |-> n]

\* getPairingCode.  The 87-byte hash input is held in five slots,
\* [0,23) [23,32) [32,55) [55,64) [64,87), and written by four input.set
\* calls in the order of the source; the last one writes the public key at
\* offset secret.length = 32.  SHA-256 and the formatting of the digest are
\* taken to be collision-free: the code is the hash input.
getPairingCode(publicKey, secret) ==
    LET i0 == [s0 |-> "", s1 |-> <<>>, s2 |-> <<>>, s3 |-> <<>>, s4 |-> <<>>]
        \* input.set(PAIRING_CODE_TAG, 0)
        i1 == [i0 EXCEPT !.s0 = PAIRING_CODE_TAG]
        \* input.set(secret, PAIRING_CODE_TAG.length)
        i2 == [i1 EXCEPT !.s1 = <<secret.a>>, !.s2 = <<secret.b, secret.c>>]
        \* input.set(publicKey, PAIRING_CODE_TAG.length + secret.length)
        i3 == [i2 EXCEPT !.s3 = <<publicKey.a>>, !.s4 = <<publicKey.b, publicKey.c>>]
        \* input.set(publicKey, secret.length)
        i4 == [i3 EXCEPT !.s2 = <<publicKey.a, publicKey.b>>, !.s3 = <<publicKey.c>>]
    IN  <<i4.s0, i4.s1, i4.s2, i4.s3, i4.s4>>

\* A token typed by the user: its text and whether it was typed in lower case.
NoToken == [text |-> <<>>, lower |-> FALSE]
WrongToken == [text |-> <<"000000-0000">>, lower |-> FALSE]
toUpperCase(token) == [token EXCEPT !.lower = FALSE]

\* getPairingToken
getPairingToken(w, lk, ed25519PublicKey) ==
    LET s == getOrCreatePairingSecret(w, lk)
    IN  IF s.code # "ok" THEN s
        ELSE [w |-> s.w, code |-> "ok",
              val |-> [text |-> getPairingCode(Bytes32(ed25519PublicKey), Bytes32(s.val)),
                       lower |-> FALSE]]

\* verifyPairingToken
verifyPairingToken(w, lk, ed25519PublicKey, userProvidedToken) ==
    IF userProvidedToken.text = <<>>
    THEN [w |-> w, code |-> "ok", val |-> FALSE]
    ELSE LET e == getPairingToken(w, lk, ed25519PublicKey)
         IN  IF e.code # "ok" THEN [w |-> e.w, code |-> e.code, val |-> FALSE]
             ELSE [w |-> e.w, code |-> "ok",
                   val |-> toUpperCase(userProvidedToken) = toUpperCase(e.val)]

\* ------------------------------------------------------------- peer record
\* getClientData(client): `client.encryptionGet` on an undefined client throws
\* a TypeError before any read; otherwise the parsed nm.client.data or null.
getClientData(w, lk, client) ==
    IF client = Undefined
    THEN [code |-> "TypeError", val |-> NoClientData]
    ELSE [code |-> "ok", val |-> encryptionGet(w, lk, ENC_KEY_CLIENT_DATA)]

\* getClientIdentityPublicKey(client): data?.publicKey || null ("" = null)
getClientIdentityPublicKey(w, lk, client) ==
    LET d == getClientData(w, lk, client)
    IN  [code |-> d.code, val |-> d.val.publicKey]

\* getClientPairingState(client)
getClientPairingState(w, lk, client) ==
    LET d == getClientData(w, lk, client)
    IN  [code |-> d.code, val |-> d.val.pairingState]

\* getCachedClientIdentityPublicKey()
getCachedClientIdentityPublicKey(w) == w.cache

\* setClientIdentityPublicKey(client, key, state): one unconditional write
\* of {publicKey, pairingState}; a rejected write is thrown to the caller.
setClientIdentityPublicKey(w, lk, ed25519PublicKeyB64, state) ==
    IF ed25519PublicKeyB64 = ""
    THEN [w |-> w, code |-> "MissingClientPublicKey"]
    ELSE IF ~encryptionAddOk(lk)
         THEN [w |-> w, code |-> "EncryptionAddRejected"]
         ELSE [w |-> encryptionAdd(w, lk, ENC_KEY_CLIENT_DATA,
                         [publicKey |-> ed25519PublicKeyB64, pairingState |-> state]),
               code |-> "ok"]

\* confirmClientPairing(client, key).  lk is the vault's state at the read
\* of nm.client.data, lkWrite its state at the write that follows the
\* localStorage.setItem.
confirmClientPairing(w, lk, lkWrite, clientEd25519PublicKeyB64) ==
    LET data == getClientData(w, lk, TheClient).val
        w1   == [w EXCEPT !.cache = clientEd25519PublicKeyB64]
    IN  IF data.publicKey = ""
        THEN [w |-> w, code |-> "NoPendingPairing"]
        ELSE IF data.publicKey # clientEd25519PublicKeyB64
        THEN [w |-> w, code |-> "ClientKeyMismatch"]
        ELSE IF ~encryptionAddOk(lkWrite)
        THEN [w |-> w1, code |-> "EncryptionAddRejected"]
        ELSE [w |-> encryptionAdd(w1, lkWrite, ENC_KEY_CLIENT_DATA,
                        [data EXCEPT !.pairingState = PAIRING_STATES.CONFIRMED]),
              code |-> "ok"]

\* ------------------------------------------------------------ session store
\* services/security/sessionStore.js: a map sessionId -> session.  Session
\* ids are hex(randomBytes(16)): each is new, here the next number.
NoSession == 0

createSession(w, key, transcript) ==
    LET sessionId == w.sid + 1
        session == [key |-> key, transcript |-> transcript, sendSeq |-> 0,
                    lastRecvSeq |-> 0, clientVerified |-> FALSE]
    IN  [w |-> [w EXCEPT !.sid = sessionId,
                         !.sessions = [i \in DOMAIN w.sessions \cup {sessionId} |->
                                          IF i = sessionId THEN session
                                          ELSE w.sessions[i]]],
         sessionId |-> sessionId]

hasSession(w, sessionId) == sessionId \in DOMAIN w.sessions

closeSession(w, sessionId) ==
    [w EXCEPT !.sessions = [i \in DOMAIN w.sessions \ {sessionId} |-> w.sessions[i]]]

clearAllSessions(w) ==
    [w |-> [w EXCEPT !.sessions = [i \in {} |-> NoSession]],
     count |-> Cardinality(DOMAIN w.sessions)]

\* concatBytes(a, b) on byte strings held as sequences of fields
concatBytes(a, b) == a \o b

\* ------------------------------------------------------------------ reset
\* resetIdentity(client): clear the sessions, overwrite the five KV keys
\* with '' (every rejection is swallowed), remove the localStorage item,
\* drop MEMORY_IDENTITY and create a new identity.
resetIdentity(w, lk) ==
    LET w0 == clearAllSessions(w).w
        w1 == encryptionAdd(w0, lk, ENC_KEY_ED25519, 0)
        w2 == encryptionAdd(w1, lk, ENC_KEY_X25519, 0)
        w3 == encryptionAdd(w2, lk, ENC_KEY_CREATION_DATE, 0)
        w4 == encryptionAdd(w3, lk, ENC_KEY_CLIENT_DATA, NoClientData)
        w5 == encryptionAdd(w4, lk, ENC_KEY_PAIRING_SECRET, 0)
        w6 == [w5 EXCEPT !.cache = ""]
        w7 == [w6 EXCEPT !.mem = 0]
    IN  getOrCreateIdentity(w7, lk)

\* ---------------------------------------------------------- session manager
\* Points of small order an extension may send as its ephemeral public key:
\* X25519 with any private key maps them to the all-zero shared secret.
SmallOrderKeys == {"Z"}
AllZero == [h |-> 0, e |-> "Z"]

\* sodium.crypto_scalarmult(shared, hostEphemeralPrivateKey, extEphemeralPub)
crypto_scalarmult(hostEph, extEph) ==
    IF extEph \in SmallOrderKeys THEN AllZero ELSE [h |-> hostEph, e |-> extEph]

\* libsodium's crypto_scalarmult returns -1 when the output is all zero, and
\* sodium-native throws on a non-zero return.
crypto_scalarmult_throws(shared) == shared = AllZero

\* sodium.crypto_sign_detached(signature, message, secretKey): 64 bytes
crypto_sign_detached(message, signer) ==
    [signer |-> signer, msg |-> message, length |-> 64]

\* sodium.crypto_sign_verify_detached(signature, message, publicKey)
crypto_sign_verify_detached(signature, message, publicKey) ==
    signature.signer = publicKey /\ signature.msg = message

NoHandshake == [hostEphemeralPubB64 |-> 0,
                signatureB64 |-> [signer |-> 0, msg |-> <<>>, length |-> 0],
                sessionId |-> NoSession]

\* The handshake creating its session whatever crypto_scalarmult computed.
finalizeHandshake_Unchecked(w, edPrivateKey, extensionEphemeralPublicKeyB64, clientPublicKeyBytes) ==
    LET hostEphemeralPublicKey == w.sid + 1
        sharedSecret == crypto_scalarmult(hostEphemeralPublicKey,
                                          extensionEphemeralPublicKeyB64)
        transcript == <<hostEphemeralPublicKey, extensionEphemeralPublicKeyB64,
                        clientPublicKeyBytes>>
        created == createSession(w, sharedSecret, transcript)
    IN  [w |-> created.w, code |-> "ok",
         val |-> [hostEphemeralPubB64 |-> hostEphemeralPublicKey,
                  signatureB64 |-> crypto_sign_detached(transcript, edPrivateKey),
                  sessionId |-> created.sessionId]]

\* The handshake once the signing key is known (sessionManager.js 151-190 on
\* the KV path, finalizeHandshakeWithMemoryIdentity on the memory path): a
\* new ephemeral keypair (numbered like the session it opens), ECDH, the
\* transcript host_eph_pk || ext_eph_pk || client_ed25519_pk, its signature
\* and the new session.
finalizeHandshake(w, edPrivateKey, extensionEphemeralPublicKeyB64, clientPublicKeyBytes) ==
    LET hostEphemeralPublicKey == w.sid + 1
        sharedSecret == crypto_scalarmult(hostEphemeralPublicKey,
                                          extensionEphemeralPublicKeyB64)
        transcript == concatBytes(
                          concatBytes(<<hostEphemeralPublicKey>>,
                                      <<extensionEphemeralPublicKeyB64>>),
                          <<clientPublicKeyBytes>>)
        signature == crypto_sign_detached(transcript, edPrivateKey)
        created == createSession(w, sharedSecret, transcript)
    IN  IF crypto_scalarmult_throws(sharedSecret)
        THEN [w |-> w, code |-> "ScalarMultFailed", val |-> NoHandshake]
        ELSE [w |-> created.w, code |-> "ok",
              val |-> [hostEphemeralPubB64 |-> hostEphemeralPublicKey,
                       signatureB64 |-> signature,
                       sessionId |-> created.sessionId]]

finalizeHandshakeWithMemoryIdentity(w, mem, extensionEphemeralPublicKeyB64, clientPublicKeyBytes) ==
    finalizeHandshake(w, mem, extensionEphemeralPublicKeyB64, clientPublicKeyBytes)

\* beginHandshakeKeys signing with the identity held in memory whenever there
\* is one, the vault's blobs otherwise.
beginHandshakeKeys_MemoryFirst(w1, lk, extensionEphemeralPublicKeyB64, clientPubB64) ==
    LET edBlobB64 == encryptionGet(w1, lk, ENC_KEY_ED25519)
        xBlobB64  == encryptionGet(w1, lk, ENC_KEY_X25519)
    IN  IF w1.mem # 0
        THEN finalizeHandshakeWithMemoryIdentity(
                 w1, w1.mem, extensionEphemeralPublicKeyB64, clientPubB64)
        ELSE IF edBlobB64 = 0 \/ xBlobB64 = 0
             THEN [w |-> w1, code |-> "IdentityKeysUnavailable", val |-> NoHandshake]
             ELSE finalizeHandshake(w1, edBlobB64, extensionEphemeralPublicKeyB64,
                                    clientPubB64)

\* beginHandshake from the reads of the identity blobs on (sessionManager.js
\* 113-191), the pinned client key having been read before.
beginHandshakeKeys(w1, lk, extensionEphemeralPublicKeyB64, clientPubB64) ==
    LET edBlobB64 == encryptionGet(w1, lk, ENC_KEY_ED25519)
        xBlobB64  == encryptionGet(w1, lk, ENC_KEY_X25519)
    IN  IF edBlobB64 = 0 \/ xBlobB64 = 0
        THEN IF w1.mem # 0
             THEN finalizeHandshakeWithMemoryIdentity(
                      w1, w1.mem, extensionEphemeralPublicKeyB64, clientPubB64)
             ELSE [w |-> w1, code |-> "IdentityKeysUnavailable", val |-> NoHandshake]
        ELSE finalizeHandshake(w1, edBlobB64, extensionEphemeralPublicKeyB64,
                               clientPubB64)

\* beginHandshake(client, extensionEphemeralPublicKeyB64)
beginHandshake(w, lk, extensionEphemeralPublicKeyB64) ==
    LET w1 == getOrCreateIdentity(w, lk).w
        clientPubB64 == getClientIdentityPublicKey(w1, lk, TheClient).val
    IN  IF clientPubB64 = ""
        THEN [w |-> w1, code |-> "ClientNotPaired", val |-> NoHandshake]
        ELSE beginHandshakeKeys(w1, lk, extensionEphemeralPublicKeyB64, clientPubB64)

\* sodium.crypto_secretbox_easy / crypto_secretbox_open_easy
crypto_secretbox_easy(plaintext, nonce, key) ==
    [k |-> key, n |-> nonce, pt |-> plaintext]
crypto_secretbox_open_easy(ciphertext, nonce, key) ==
    ciphertext.k = key /\ ciphertext.n = nonce

NoFrame == [k |-> [h |-> 0, e |-> ""], n |-> 0, pt |-> ""]

\* encryptWithSession sealing under another nonce than the one it returns
encryptWithSession_OtherNonce(w, sessionId, plaintext, nonce) ==
    IF ~hasSession(w, sessionId)
    THEN [w |-> w, code |-> "SessionNotFound",
          val |-> [nonce |-> 0, ciphertext |-> NoFrame, seq |-> 0]]
    ELSE LET session == w.sessions[sessionId]
             seq == session.sendSeq + 1
         IN  [w |-> [w EXCEPT !.sessions[sessionId].sendSeq = seq],
              code |-> "ok",
              val |-> [nonce |-> nonce,
                       ciphertext |-> crypto_secretbox_easy(plaintext, nonce + 1, session.key),
                       seq |-> seq]]

\* encryptWithSession returning the counter before it is incremented
encryptWithSession_PostIncrement(w, sessionId, plaintext, nonce) ==
    IF ~hasSession(w, sessionId)
    THEN [w |-> w, code |-> "SessionNotFound",
          val |-> [nonce |-> 0, ciphertext |-> NoFrame, seq |-> 0]]
    ELSE LET session == w.sessions[sessionId]
             seq == session.sendSeq + 1
         IN  [w |-> [w EXCEPT !.sessions[sessionId].sendSeq = seq],
              code |-> "ok",
              val |-> [nonce |-> nonce,
                       ciphertext |-> crypto_secretbox_easy(plaintext, nonce, session.key),
                       seq |-> session.sendSeq]]

\* encryptWithSession(sessionId, plaintext); nonce is the random nonce drawn
encryptWithSession(w, sessionId, plaintext, nonce) ==
    IF ~hasSession(w, sessionId)
    THEN [w |-> w, code |-> "SessionNotFound",
          val |-> [nonce |-> 0, ciphertext |-> NoFrame, seq |-> 0]]
    ELSE LET session == w.sessions[sessionId]
             seq == session.sendSeq + 1
         IN  [w |-> [w EXCEPT !.sessions[sessionId].sendSeq = seq],
              code |-> "ok",
              val |-> [nonce |-> nonce,
                       ciphertext |-> crypto_secretbox_easy(plaintext, nonce, session.key),
                       seq |-> seq]]

\* decryptWithSession(sessionId, nonce, ciphertext)
decryptWithSession(w, sessionId, nonce, ciphertext) ==
    IF ~hasSession(w, sessionId)
    THEN [w |-> w, code |-> "SessionNotFound", val |-> ""]
    ELSE IF ~crypto_secretbox_open_easy(ciphertext, nonce, w.sessions[sessionId].key)
    THEN [w |-> w, code |-> "DecryptFailed", val |-> ""]
    ELSE [w |-> w, code |-> "ok", val |-> ciphertext.pt]

\* A JavaScript value passed as seq: a finite number, counted in halves so
\* that non-integers exist (v = 3 is 1.5), or NaN, Infinity, or a string.
Num(halves) == [t |-> "number", v |-> halves]
isFiniteNumber(seq) == seq.t = "number"

\* recordIncomingSeq validating seq before it looks the session up
recordIncomingSeq_SeqFirst(w, sessionId, seq) ==
    IF ~isFiniteNumber(seq) THEN [w |-> w, code |-> "InvalidSeq"]
    ELSE IF ~hasSession(w, sessionId) THEN [w |-> w, code |-> "SessionNotFound"]
    ELSE IF seq.v <= w.sessions[sessionId].lastRecvSeq THEN [w |-> w, code |-> "ReplayDetected"]
    ELSE [w |-> [w EXCEPT !.sessions[sessionId].lastRecvSeq = seq.v], code |-> "ok"]

\* recordIncomingSeq(sessionId, seq); lastRecvSeq is counted in halves too
\* recordIncomingSeq comparing with < where the code has <=
recordIncomingSeq_Less(w, sessionId, seq) ==
    IF ~hasSession(w, sessionId) THEN [w |-> w, code |-> "SessionNotFound"]
    ELSE IF ~isFiniteNumber(seq) THEN [w |-> w, code |-> "InvalidSeq"]
    ELSE IF seq.v < w.sessions[sessionId].lastRecvSeq THEN [w |-> w, code |-> "ReplayDetected"]
    ELSE [w |-> [w EXCEPT !.sessions[sessionId].lastRecvSeq = seq.v], code |-> "ok"]

recordIncomingSeq(w, sessionId, seq) ==
    IF ~hasSession(w, sessionId)
    THEN [w |-> w, code |-> "SessionNotFound"]
    ELSE IF ~isFiniteNumber(seq)
    THEN [w |-> w, code |-> "InvalidSeq"]
    ELSE IF seq.v <= w.sessions[sessionId].lastRecvSeq
    THEN [w |-> w, code |-> "ReplayDetected"]
    ELSE [w |-> [w EXCEPT !.sessions[sessionId].lastRecvSeq = seq.v], code |-> "ok"]

\* ---------------------------------------------------------------- handlers
\* getFingerprint(ed25519PublicKeyB64): hex(sha256(publicKey))
getFingerprint(ed25519PublicKeyB64) == <<"sha256", ed25519PublicKeyB64>>

NoIdentity == [ed25519PublicKey |-> 0, x25519PublicKey |-> 0,
               fingerprint |-> <<"sha256", 0>>]

\* The argument the handlers of SecurityHandlers.js pass to
\* getClientIdentityPublicKey: the calls on lines 82, 121, 177 and 290 are
\* written getClientIdentityPublicKey(), so `client` is undefined there.
HandlerClientArg == Undefined

\* nmGetAppIdentity looking the pinned key up with this.client
nmGetAppIdentity_WithClient(w, lk, pairingToken, clientEd25519PublicKeyB64) ==
    IF pairingToken.text = <<>>
    THEN [w |-> w, code |-> "PairingTokenRequired", val |-> NoIdentity]
    ELSE IF clientEd25519PublicKeyB64 = ""
    THEN [w |-> w, code |-> "ClientPublicKeyRequired", val |-> NoIdentity]
    ELSE
    LET id == getOrCreateIdentity(w, lk)
        isValidToken == verifyPairingToken(id.w, lk, id.val.ed25519PublicKey, pairingToken)
        w2 == isValidToken.w
        existing == getClientIdentityPublicKey(w2, lk, TheClient)
        stored == setClientIdentityPublicKey(w2, lk, clientEd25519PublicKeyB64,
                                             PAIRING_STATES.PENDING)
    IN  IF isValidToken.code # "ok"
        THEN [w |-> w2, code |-> isValidToken.code, val |-> NoIdentity]
        ELSE IF ~isValidToken.val
        THEN [w |-> w2, code |-> "InvalidPairingToken", val |-> NoIdentity]
        ELSE IF existing.val # "" /\ existing.val # clientEd25519PublicKeyB64
        THEN [w |-> w2, code |-> "ClientAlreadyPaired", val |-> NoIdentity]
        ELSE IF stored.code # "ok"
        THEN [w |-> stored.w, code |-> stored.code, val |-> NoIdentity]
        ELSE [w |-> stored.w, code |-> "ok",
              val |-> [ed25519PublicKey |-> id.val.ed25519PublicKey,
                       x25519PublicKey |-> id.val.x25519PublicKey,
                       fingerprint |-> getFingerprint(id.val.ed25519PublicKey)]]

\* SecurityHandlers.nmGetAppIdentity({pairingToken, clientEd25519PublicKeyB64})
nmGetAppIdentity(w, lk, pairingToken, clientEd25519PublicKeyB64) ==
    IF pairingToken.text = <<>>
    THEN [w |-> w, code |-> "PairingTokenRequired", val |-> NoIdentity]
    ELSE IF clientEd25519PublicKeyB64 = ""
    THEN [w |-> w, code |-> "ClientPublicKeyRequired", val |-> NoIdentity]
    ELSE
    LET id == getOrCreateIdentity(w, lk)
        isValidToken == verifyPairingToken(id.w, lk, id.val.ed25519PublicKey, pairingToken)
        w2 == isValidToken.w
        existing == getClientIdentityPublicKey(w2, lk, HandlerClientArg)
        stored == setClientIdentityPublicKey(w2, lk, clientEd25519PublicKeyB64,
                                             PAIRING_STATES.PENDING)
    IN  IF isValidToken.code # "ok"
        THEN [w |-> w2, code |-> isValidToken.code, val |-> NoIdentity]
        ELSE IF ~isValidToken.val
        THEN [w |-> w2, code |-> "InvalidPairingToken", val |-> NoIdentity]
        ELSE IF existing.code # "ok"
        THEN [w |-> w2, code |-> existing.code, val |-> NoIdentity]
        ELSE IF existing.val # "" /\ existing.val # clientEd25519PublicKeyB64
        THEN [w |-> w2, code |-> "ClientAlreadyPaired", val |-> NoIdentity]
        ELSE IF stored.code # "ok"
        THEN [w |-> stored.w, code |-> stored.code, val |-> NoIdentity]
        ELSE [w |-> stored.w, code |-> "ok",
              val |-> [ed25519PublicKey |-> id.val.ed25519PublicKey,
                       x25519PublicKey |-> id.val.x25519PublicKey,
                       fingerprint |-> getFingerprint(id.val.ed25519PublicKey)]]

\* nmGetAppIdentity up to its token check (lines 41-79): the request is
\* suspended at the await of the lookup of the pinned key when it passes.
nmGetAppIdentityCheck(w, lk, pairingToken, clientEd25519PublicKeyB64) ==
    IF pairingToken.text = <<>>
    THEN [w |-> w, code |-> "PairingTokenRequired"]
    ELSE IF clientEd25519PublicKeyB64 = ""
    THEN [w |-> w, code |-> "ClientPublicKeyRequired"]
    ELSE
    LET id == getOrCreateIdentity(w, lk)
        isValidToken == verifyPairingToken(id.w, lk, id.val.ed25519PublicKey, pairingToken)
    IN  IF isValidToken.code # "ok"
        THEN [w |-> isValidToken.w, code |-> isValidToken.code]
        ELSE IF ~isValidToken.val
        THEN [w |-> isValidToken.w, code |-> "InvalidPairingToken"]
        ELSE [w |-> isValidToken.w, code |-> "suspended"]

\* nmGetAppIdentity from the lookup of the pinned key on (lines 81-96)
nmGetAppIdentityPin(w, lk, clientEd25519PublicKeyB64) ==
    LET existing == getClientIdentityPublicKey(w, lk, HandlerClientArg)
        stored == setClientIdentityPublicKey(w, lk, clientEd25519PublicKeyB64,
                                             PAIRING_STATES.PENDING)
    IN  IF existing.code # "ok"
        THEN [w |-> w, code |-> existing.code]
        ELSE IF existing.val # "" /\ existing.val # clientEd25519PublicKeyB64
        THEN [w |-> w, code |-> "ClientAlreadyPaired"]
        ELSE [w |-> stored.w, code |-> stored.code]

\* SecurityHandlers.nmBeginHandshake({extEphemeralPubB64})
nmBeginHandshake(w, lk, enabled, extEphemeralPubB64) ==
    LET clientPub == getClientIdentityPublicKey(w, lk, HandlerClientArg)
    IN  IF ~enabled
        THEN [w |-> w, code |-> "NativeMessagingDisabled", val |-> NoHandshake]
        ELSE IF clientPub.code # "ok"
        THEN [w |-> w, code |-> clientPub.code, val |-> NoHandshake]
        ELSE IF clientPub.val = ""
        THEN [w |-> w, code |-> "NotPaired", val |-> NoHandshake]
        ELSE IF extEphemeralPubB64 = ""
        THEN [w |-> w, code |-> "MissingEphemeralPublicKey", val |-> NoHandshake]
        ELSE beginHandshake(w, lk, extEphemeralPubB64)

PROTOCOL_TAGS == [CLIENT_FINISH |-> "pearpass/client-finish/v1"]

\* What the extension signs: tag || utf8(sessionId) || transcript
clientTranscript(sessionId, transcript) ==
    concatBytes(concatBytes(<<PROTOCOL_TAGS.CLIENT_FINISH>>, <<sessionId>>), transcript)

\* Buffer.from(clientPubB64, 'base64').length of a pinned key
clientPubLength(clientPubB64) == IF clientPubB64 \in PeerKeys THEN 32 ELSE 0

NoSignature == [signer |-> "", msg |-> <<>>, length |-> 0]

\* nmFinishHandshake taking a failed lookup of the pinned key for a success
nmFinishHandshake_Lenient(w, lk, sessionId, clientSigB64) ==
    IF sessionId = NoSession
    THEN [w |-> w, code |-> "MissingSessionId"]
    ELSE IF clientSigB64 = NoSignature
    THEN [w |-> w, code |-> "MissingClientSignature"]
    ELSE IF ~hasSession(w, sessionId)
    THEN [w |-> w, code |-> "SessionNotFound"]
    ELSE
    LET session == w.sessions[sessionId]
        clientPub == getClientIdentityPublicKey(w, lk, HandlerClientArg)
        ok == crypto_sign_verify_detached(
                  clientSigB64, clientTranscript(sessionId, session.transcript),
                  clientPub.val)
    IN  IF session.clientVerified
        THEN [w |-> w, code |-> "ok"]
        ELSE IF clientPub.code = "ok" /\ clientPub.val = ""
        THEN [w |-> w, code |-> "ClientNotPaired"]
        ELSE IF clientPub.code = "ok" /\ clientPubLength(clientPub.val) # 32
        THEN [w |-> w, code |-> "InvalidClientPublicKey"]
        ELSE IF clientSigB64.length # 64
        THEN [w |-> w, code |-> "InvalidClientSignature"]
        ELSE IF session.transcript = <<>>
        THEN [w |-> w, code |-> "InvalidTranscript"]
        ELSE IF clientPub.code = "ok" /\ ~ok
        THEN [w |-> closeSession(w, sessionId), code |-> "ClientSignatureInvalid"]
        ELSE [w |-> [w EXCEPT !.sessions[sessionId].clientVerified = TRUE],
              code |-> "ok"]

\* nmFinishHandshake looking the pinned key up with this.client
nmFinishHandshake_WithClient(w, lk, sessionId, clientSigB64) ==
    IF sessionId = NoSession
    THEN [w |-> w, code |-> "MissingSessionId"]
    ELSE IF clientSigB64 = NoSignature
    THEN [w |-> w, code |-> "MissingClientSignature"]
    ELSE IF ~hasSession(w, sessionId)
    THEN [w |-> w, code |-> "SessionNotFound"]
    ELSE
    LET session == w.sessions[sessionId]
        clientPub == getClientIdentityPublicKey(w, lk, TheClient)
        ok == crypto_sign_verify_detached(
                  clientSigB64, clientTranscript(sessionId, session.transcript),
                  clientPub.val)
    IN  IF session.clientVerified
        THEN [w |-> w, code |-> "ok"]
        ELSE IF clientPub.val = ""
        THEN [w |-> w, code |-> "ClientNotPaired"]
        ELSE IF clientPubLength(clientPub.val) # 32
        THEN [w |-> w, code |-> "InvalidClientPublicKey"]
        ELSE IF clientSigB64.length # 64
        THEN [w |-> w, code |-> "InvalidClientSignature"]
        ELSE IF session.transcript = <<>>
        THEN [w |-> w, code |-> "InvalidTranscript"]
        ELSE IF ~ok
        THEN [w |-> closeSession(w, sessionId), code |-> "ClientSignatureInvalid"]
        ELSE [w |-> [w EXCEPT !.sessions[sessionId].clientVerified = TRUE],
              code |-> "ok"]

\* SecurityHandlers.nmFinishHandshake({sessionId, clientSigB64})
nmFinishHandshake(w, lk, sessionId, clientSigB64) ==
    IF sessionId = NoSession
    THEN [w |-> w, code |-> "MissingSessionId"]
    ELSE IF clientSigB64 = NoSignature
    THEN [w |-> w, code |-> "MissingClientSignature"]
    ELSE IF ~hasSession(w, sessionId)
    THEN [w |-> w, code |-> "SessionNotFound"]
    ELSE
    LET session == w.sessions[sessionId]
        clientPub == getClientIdentityPublicKey(w, lk, HandlerClientArg)
        ok == crypto_sign_verify_detached(
                  clientSigB64, clientTranscript(sessionId, session.transcript),
                  clientPub.val)
    IN  IF session.clientVerified
        THEN [w |-> w, code |-> "ok"]
        ELSE IF clientPub.code # "ok"
        THEN [w |-> w, code |-> clientPub.code]
        ELSE IF clientPub.val = ""
        THEN [w |-> w, code |-> "ClientNotPaired"]
        ELSE IF clientPubLength(clientPub.val) # 32
        THEN [w |-> w, code |-> "InvalidClientPublicKey"]
        ELSE IF clientSigB64.length # 64
        THEN [w |-> w, code |-> "InvalidClientSignature"]
        ELSE IF session.transcript = <<>>
        THEN [w |-> w, code |-> "InvalidTranscript"]
        ELSE IF ~ok
        THEN [w |-> closeSession(w, sessionId), code |-> "ClientSignatureInvalid"]
        ELSE [w |-> [w EXCEPT !.sessions[sessionId].clientVerified = TRUE],
              code |-> "ok"]

\* nmCloseSession forgetting the peer along with the session
nmCloseSession_Unpair(w, sessionId) ==
    IF sessionId = NoSession
    THEN [w |-> w, code |-> "MissingSessionId"]
    ELSE [w |-> [closeSession(w, sessionId) EXCEPT !.cache = "",
                                                  !.kv[ENC_KEY_CLIENT_DATA] = NoClientData],
          code |-> "ok"]

\* SecurityHandlers.nmCloseSession({sessionId})
nmCloseSession(w, sessionId) ==
    IF sessionId = NoSession
    THEN [w |-> w, code |-> "MissingSessionId"]
    ELSE [w |-> closeSession(w, sessionId), code |-> "ok"]

\* SecurityHandlers.checkExtensionPairingStatus({clientEd25519PublicKeyB64})
checkExtensionPairingStatus(w, lk, enabled, clientEd25519PublicKeyB64) ==
    LET storedClientPub == getClientIdentityPublicKey(w, lk, HandlerClientArg)
    IN  IF ~enabled
        THEN [code |-> "NativeMessagingDisabled", paired |-> FALSE]
        ELSE IF clientEd25519PublicKeyB64 = ""
        THEN [code |-> "ClientPublicKeyRequired", paired |-> FALSE]
        ELSE IF storedClientPub.code # "ok"
        THEN [code |-> storedClientPub.code, paired |-> FALSE]
        ELSE [code |-> "ok", paired |-> storedClientPub.val = clientEd25519PublicKeyB64]

\* SecurityHandlers.nmResetPairing()
nmResetPairing(w, lk) ==
    LET cleared == clearAllSessions(w)
        newIdentity == resetIdentity(cleared.w, lk)
    IN  [w |-> newIdentity.w, code |-> "ok",
         val |-> [clearedSessions |-> cleared.count,
                  ed25519PublicKey |-> newIdentity.val.ed25519PublicKey,
                  x25519PublicKey |-> newIdentity.val.x25519PublicKey,
                  creationDate |-> newIdentity.val.creationDate]]

\* --------------------------------------------------------------- DeviceList
\* Ids of the devices listed; NoDevice is a currentDeviceId left undefined.
DeviceIds == {"d1", "d2", "d3"}
NoDevice == ""

\* onChange was not called / was called with the array `next` (held as the
\* set of its elements).
NoChange == [called |-> FALSE, next |-> {}]

\* DeviceList.toggle without the re-adding of the current device
toggle_NoPin(props, deviceKey) ==
    IF props.readOnly THEN NoChange
    ELSE IF props.currentDeviceId # NoDevice /\ deviceKey = props.currentDeviceId
    THEN NoChange
    ELSE [called |-> TRUE,
          next |-> IF deviceKey \in props.value THEN props.value \ {deviceKey}
                   ELSE props.value \cup {deviceKey}]

\* DeviceList.toggle(deviceKey); selected = new Set(value)
toggle(props, deviceKey) ==
    LET selected == props.value
        next1 == IF deviceKey \in selected THEN selected \ {deviceKey}
                 ELSE selected \cup {deviceKey}
        next2 == IF props.currentDeviceId # NoDevice
                 THEN next1 \cup {props.currentDeviceId} ELSE next1
    IN  IF props.readOnly THEN NoChange
        ELSE IF props.currentDeviceId # NoDevice /\ deviceKey = props.currentDeviceId
        THEN NoChange
        ELSE [called |-> TRUE, next |-> next2]

\* onClick of a DeviceItem: readOnly ? undefined : () => toggle(id)
onClick(props, id) == IF props.readOnly THEN NoChange ELSE toggle(props, id)

NoDeviceList == [value |-> {}, readOnly |-> FALSE, currentDeviceId |-> NoDevice,
                 clicked |-> NoDevice, onChange |-> NoChange]

\* ------------------------------------------------------------- AboutContent
OFFLINE_TIMEOUT_MESSAGE == "You are offline, please check your internet connection"

\* useState('') and useState(false); no feedback in flight, no toast shown.
NoFeedback == [message |-> "", isLoading |-> FALSE, online |-> TRUE,
               send |-> "none", timer |-> "none", toast |-> "", payload |-> ""]

\* What the user may type in the report text area.
Messages == {"", "bug", "crash", "typo"}

FEEDBACK_SENT == "Feedback sent"
SOMETHING_WENT_WRONG == "Something went wrong, please try again"

\* handleReportProblem up to its first await. It returns at once on an empty
\* message or while loading. Offline, it shows the offline toast and returns,
\* and the finally block takes back the setIsLoading(true) of the same call.
\* Online, it starts sendFeedbackWithTimeout with the payload built from the
\* message, arms the 10 s timer and waits for Promise.race.
handleReportProblem(s) ==
    IF s.message = "" \/ s.isLoading THEN s
    ELSE IF ~s.online
         THEN [s EXCEPT !.isLoading = FALSE, !.toast = OFFLINE_TIMEOUT_MESSAGE]
         ELSE [s EXCEPT !.isLoading = TRUE, !.payload = s.message,
                        !.send = "pending", !.timer = "armed"]

\* The continuation after Promise.race fulfils: sendFeedbackWithTimeout has
\* resolved. The timer is not cleared, but its promise can no longer settle
\* the race, so it is dropped here.
raceFulfilled(s) ==
    [s EXCEPT !.message = "", !.isLoading = FALSE, !.toast = FEEDBACK_SENT,
              !.send = "none", !.timer = "none", !.payload = ""]

\* The catch block, then finally: error is the message of the rejection.
raceRejected(s, error) ==
    [s EXCEPT !.isLoading = FALSE,
              !.toast = IF error = "OFFLINE_TIMEOUT" THEN OFFLINE_TIMEOUT_MESSAGE
                        ELSE SOMETHING_WENT_WRONG,
              !.send = "none", !.timer = "none", !.payload = ""]

\* The setTimeout callback: it rejects the race only when the app is offline
\* at that moment; online it does nothing, and its promise never settles.
timeoutCallback(s) ==
    IF ~s.online THEN raceRejected(s, "OFFLINE_TIMEOUT")
    ELSE [s EXCEPT !.timer = "fired"]

\* ------------------------------------------------------------ state machine
Nonces == {1, 2}
SessionIds == 1..MaxSessions

\* Pairing tokens a user may type: none, a wrong one, and the code the
\* desktop app displayed last, typed in upper or in lower case.
Tokens ==
    {NoToken, WrongToken, shownCode, [shownCode EXCEPT !.lower = TRUE]}

\* Client signatures an extension may send: none, a short one, and Ed25519
\* signatures by either peer key over the client-finish preimage of any
\* session id and the transcript of any live session.
ClientSigs ==
    {NoSignature, [signer |-> "E", msg |-> <<>>, length |-> 63]} \cup
    {[signer |-> k, msg |-> clientTranscript(s, sessions[t].transcript),
      length |-> 64] : k \in PeerKeys, s \in SessionIds, t \in DOMAIN sessions}

\* Frames an extension may send: sealed under the key of a live session, or
\* under a key no session has.
Frames ==
    {crypto_secretbox_easy(pt, n, k) :
        pt \in Plaintexts, n \in Nonces,
        k \in {sessions[t].key : t \in DOMAIN sessions}
              \cup {crypto_scalarmult(0, "X")}}

SeqValues ==
    {Num(v) : v \in -2..(2 * MaxSeq)} \cup
    {[t |-> "NaN", v |-> 0], [t |-> "Infinity", v |-> 0], [t |-> "string", v |-> 0]}

Bounded(w) == w.ids <= MaxIdentities /\ w.secrets <= MaxSecrets

NoRequest == [op |-> "none", code |-> "none"]

InitSecurity ==
    /\ kv = EmptyKv
    /\ locked \in BOOLEAN
    /\ MEMORY_IDENTITY = 0
    /\ localStorage = ""
    /\ sessions = [i \in {} |-> NoSession]
    /\ idCount = 0
    /\ secretCount = 0
    /\ sidCount = 0
    /\ nmEnabled = TRUE
    /\ shownCode = NoToken
    /\ pending = ""
    /\ pinning = {}
    /\ last = NoRequest

\* No DeviceList is mounted; AboutContent holds its useState defaults.
Init ==
    /\ InitSecurity
    /\ deviceList = NoDeviceList
    /\ aboutContent = NoFeedback

InitChannel == Init /\ ~locked

Env == UNCHANGED <<locked, nmEnabled, shownCode, pending, pinning, components>>

\* The vault is locked (auto-lock, log out) or unlocked by the user.
Lock ==
    /\ ~locked
    /\ locked' = TRUE
    /\ UNCHANGED <<kv, MEMORY_IDENTITY, localStorage, sessions, idCount, secretCount,
                   sidCount,
                   nmEnabled, shownCode, pending, pinning, last, components>>

Unlock ==
    /\ locked
    /\ locked' = FALSE
    /\ UNCHANGED <<kv, MEMORY_IDENTITY, localStorage, sessions, idCount, secretCount,
                   sidCount,
                   nmEnabled, shownCode, pending, pinning, last, components>>

\* The user switches the extension connection on or off.
SetNativeMessagingEnabled ==
    /\ nmEnabled' = ~nmEnabled
    /\ UNCHANGED <<kv, MEMORY_IDENTITY, localStorage, sessions, idCount, secretCount,
                   sidCount,
                   locked, shownCode, pending, pinning, last, components>>

GetOrCreateIdentity ==
    LET r == getOrCreateIdentity(World, locked)
    IN  /\ Bounded(r.w)
        /\ Commit(r.w)
        /\ last' = [op |-> "getOrCreateIdentity", code |-> r.code, val |-> r.val,
                    lk |-> locked]
        /\ Env

\* getOrCreateIdentity during which the vault locks or unlocks.
GetOrCreateIdentityAcrossStep(p) ==
    LET r == getOrCreateIdentityAcross(World, locked, p)
    IN  /\ Bounded(r.w)
        /\ Commit(r.w)
        /\ locked' = ~locked
        /\ last' = [op |-> "getOrCreateIdentityAcross", code |-> r.code, val |-> r.val,
                    lk |-> ~locked]
        /\ UNCHANGED <<nmEnabled, shownCode, pending, pinning, components>>

GetOrCreateIdentityAcross == \E p \in 1..4 : GetOrCreateIdentityAcrossStep(p)

\* The desktop app derives and displays the pairing code.
GetPairingToken ==
    LET id == getOrCreateIdentity(World, locked)
        r  == getPairingToken(id.w, locked, id.val.ed25519PublicKey)
    IN  /\ Bounded(r.w)
        /\ Commit(r.w)
        /\ shownCode' = IF r.code = "ok" THEN r.val ELSE shownCode
        /\ last' = [op |-> "getPairingToken", code |-> r.code]
        /\ UNCHANGED <<locked, nmEnabled, pending, pinning, components>>

SetClientIdentityPublicKeyStep(key) ==
    LET r == setClientIdentityPublicKey(World, locked, key, PAIRING_STATES.PENDING)
    IN  /\ Commit(r.w)
        /\ last' = [op |-> "setClientIdentityPublicKey", code |-> r.code, key |-> key]
        /\ Env

\* Called as nmGetAppIdentity calls it: after the check that no other key is
\* pinned.
SetClientIdentityPublicKey ==
    \E key \in PeerKeys :
        /\ getClientIdentityPublicKey(World, locked, TheClient).val \in {"", key}
        /\ SetClientIdentityPublicKeyStep(key)

\* The vault may lock between the read and the write of the request.
ConfirmClientPairingStep(key, lkWrite) ==
    LET r == confirmClientPairing(World, locked, lkWrite, key)
    IN  /\ Commit(r.w)
        /\ last' = [op |-> "confirmClientPairing", code |-> r.code, key |-> key]
        /\ locked' = lkWrite
        /\ UNCHANGED <<nmEnabled, shownCode, pending, pinning, components>>

ConfirmClientPairing ==
    \E key \in PeerKeys, lkWrite \in {locked, TRUE} : ConfirmClientPairingStep(key, lkWrite)

NmGetAppIdentityStep(token, key) ==
    LET r == nmGetAppIdentity(World, locked, token, key)
    IN  /\ Bounded(r.w)
        /\ Commit(r.w)
        /\ last' = [op |-> "nmGetAppIdentity", code |-> r.code, key |-> key,
                    \* the request follows a reset and carries the code shown before it
                    old |-> /\ last.op = "nmResetPairing"
                            /\ token.text # <<>>
                            /\ toUpperCase(token) = shownCode]
        /\ Env

NmGetAppIdentity ==
    \E token \in Tokens, key \in PeerKeys \cup {""} : NmGetAppIdentityStep(token, key)

\* nmGetAppIdentity run in two steps, other requests running in between.
NmGetAppIdentityCheckStep(token, key) ==
    LET r == nmGetAppIdentityCheck(World, locked, token, key)
    IN  /\ key \notin pinning
        /\ Bounded(r.w)
        /\ Commit(r.w)
        /\ pinning' = IF r.code = "suspended" THEN pinning \cup {key} ELSE pinning
        /\ last' = [op |-> "nmGetAppIdentity", code |-> r.code, key |-> key, old |-> FALSE]
        /\ UNCHANGED <<locked, nmEnabled, shownCode, pending, components>>

NmGetAppIdentityCheck ==
    \E token \in Tokens, key \in PeerKeys : NmGetAppIdentityCheckStep(token, key)

NmGetAppIdentityPinStep(key) ==
    LET r == nmGetAppIdentityPin(World, locked, key)
    IN  /\ key \in pinning
        /\ Commit(r.w)
        /\ pinning' = pinning \ {key}
        /\ last' = [op |-> "nmGetAppIdentity", code |-> r.code, key |-> key, old |-> FALSE]
        /\ UNCHANGED <<locked, nmEnabled, shownCode, pending, components>>

NmGetAppIdentityPin == \E key \in PeerKeys : NmGetAppIdentityPinStep(key)

BeginHandshakeStep(ext) ==
    LET r == beginHandshake(World, locked, ext)
    IN  /\ Bounded(r.w)
        /\ Commit(r.w)
        /\ last' = [op |-> "beginHandshake", code |-> r.code, val |-> r.val]
        /\ Env

BeginHandshake ==
    \E ext \in ExtEphKeys : BeginHandshakeStep(ext) /\ sidCount' <= MaxSessions

BeginHandshakeFew ==
    \E ext \in ExtEphKeys : BeginHandshakeStep(ext) /\ sidCount' <= MaxPairingSessions

\* beginHandshake run in two steps: up to the read of the pinned client key
\* (lines 97-108), where it is suspended at the await of the identity blobs,
\* and from there to the end (lines 113-191).  Other requests run in between.
BeginHandshakeRead ==
    LET w1 == getOrCreateIdentity(World, locked).w
        clientPubB64 == getClientIdentityPublicKey(w1, locked, TheClient).val
    IN  /\ pending = ""
        /\ clientPubB64 # ""
        /\ Bounded(w1)
        /\ Commit(w1)
        /\ pending' = clientPubB64
        /\ last' = [op |-> "beginHandshake", code |-> "suspended"]
        /\ UNCHANGED <<locked, nmEnabled, shownCode, pinning, components>>

BeginHandshakeResumeStep(ext) ==
    LET r == beginHandshakeKeys(World, locked, ext, pending)
    IN  /\ pending # ""
        /\ Commit(r.w)
        /\ pending' = ""
        /\ last' = [op |-> "beginHandshake", code |-> r.code, val |-> r.val]
        /\ UNCHANGED <<locked, nmEnabled, shownCode, pinning, components>>

BeginHandshakeResume ==
    \E ext \in ExtEphKeys : BeginHandshakeResumeStep(ext) /\ sidCount' <= MaxSessions

NmBeginHandshakeStep(ext) ==
    LET r == nmBeginHandshake(World, locked, nmEnabled, ext)
    IN  /\ Bounded(r.w)
        /\ Commit(r.w)
        /\ last' = [op |-> "nmBeginHandshake", code |-> r.code, val |-> r.val]
        /\ Env

NmBeginHandshake ==
    \E ext \in ExtEphKeys \cup {""} :
        NmBeginHandshakeStep(ext) /\ sidCount' <= MaxSessions

NmFinishHandshakeStep(sid, sig) ==
    LET r == nmFinishHandshake(World, locked, sid, sig)
    IN  /\ Commit(r.w)
        /\ last' = [op |-> "nmFinishHandshake", code |-> r.code, sid |-> sid,
                    sig |-> sig]
        /\ Env

NmFinishHandshake ==
    \E sid \in SessionIds \cup {NoSession}, sig \in ClientSigs :
        NmFinishHandshakeStep(sid, sig)

NmCloseSessionStep(sid) ==
    LET r == nmCloseSession(World, sid)
    IN  /\ Commit(r.w)
        /\ last' = [op |-> "nmCloseSession", code |-> r.code, sid |-> sid]
        /\ Env

NmCloseSession == \E sid \in SessionIds \cup {NoSession} : NmCloseSessionStep(sid)

CheckExtensionPairingStatusStep(key) ==
    LET r == checkExtensionPairingStatus(World, locked, nmEnabled, key)
    IN  /\ last' = [op |-> "checkExtensionPairingStatus", code |-> r.code,
                    key |-> key, paired |-> r.paired]
        /\ UNCHANGED <<kv, MEMORY_IDENTITY, localStorage, sessions, idCount, secretCount,
                       sidCount, locked, nmEnabled, shownCode, pending, pinning, components>>

CheckExtensionPairingStatus ==
    \E key \in PeerKeys \cup {""} : CheckExtensionPairingStatusStep(key)

NmResetPairing ==
    LET r == nmResetPairing(World, locked)
    IN  /\ Bounded(r.w)
        /\ Commit(r.w)
        /\ last' = [op |-> "nmResetPairing", code |-> r.code, val |-> r.val]
        /\ Env

EncryptWithSessionStep(sid, pt, nonce) ==
    LET r == encryptWithSession(World, sid, pt, nonce)
    IN  /\ \A i \in DOMAIN r.w.sessions : r.w.sessions[i].sendSeq <= MaxSeq
        /\ Commit(r.w)
        /\ last' = [op |-> "encryptWithSession", code |-> r.code, sid |-> sid,
                    pt |-> pt, val |-> r.val]
        /\ Env

EncryptWithSession ==
    \E sid \in SessionIds, pt \in Plaintexts, nonce \in Nonces :
        EncryptWithSessionStep(sid, pt, nonce)

DecryptWithSessionStep(sid, nonce, frame) ==
    LET r == decryptWithSession(World, sid, nonce, frame)
    IN  /\ Commit(r.w)
        /\ last' = [op |-> "decryptWithSession", code |-> r.code, sid |-> sid,
                    nonce |-> nonce, frame |-> frame, val |-> r.val,
                    \* the request before was the same one, and it succeeded
                    again |-> /\ last.op = "decryptWithSession"
                              /\ last.code = "ok"
                              /\ last.sid = sid
                              /\ last.nonce = nonce
                              /\ last.frame = frame,
                    \* the request before was the seal that returned this frame
                    sealed |-> /\ last.op = "encryptWithSession"
                               /\ last.code = "ok"
                               /\ last.sid = sid
                               /\ last.val.nonce = nonce
                               /\ last.val.ciphertext = frame]
        /\ Env

DecryptWithSession ==
    \E sid \in SessionIds, nonce \in Nonces, frame \in Frames :
        DecryptWithSessionStep(sid, nonce, frame)

RecordIncomingSeqStep(sid, seq) ==
    LET r == recordIncomingSeq(World, sid, seq)
    IN  /\ Commit(r.w)
        /\ last' = [op |-> "recordIncomingSeq", code |-> r.code, sid |-> sid]
        /\ Env

RecordIncomingSeq ==
    \E sid \in SessionIds, seq \in SeqValues : RecordIncomingSeqStep(sid, seq)

\* Identity, pairing and reset.
Next ==
    \/ Lock
    \/ Unlock
    \/ GetOrCreateIdentity
    \/ GetPairingToken
    \/ SetClientIdentityPublicKey
    \/ ConfirmClientPairing
    \/ NmGetAppIdentity
    \/ BeginHandshakeFew
    \/ CheckExtensionPairingStatus
    \/ NmResetPairing

Spec == Init /\ [][Next]_vars

\* Pairing requests and the handshake of the sessions of either peer, vault
\* unlocked.
NextHandshake ==
    \/ GetPairingToken
    \/ NmGetAppIdentity
    \/ SetClientIdentityPublicKey
    \/ BeginHandshake
    \/ NmBeginHandshake
    \/ NmFinishHandshake
    \/ NmCloseSession

SpecHandshake == InitChannel /\ [][NextHandshake]_vars

\* The data phase of the sessions of one pinned peer, vault unlocked.

NextChannel ==
    \/ SetClientIdentityPublicKeyStep("E")
    \/ BeginHandshake
    \/ NmCloseSession
    \/ DecryptWithSession
    \/ RecordIncomingSeq

SpecChannel == InitChannel /\ [][NextChannel]_vars

\* A beginHandshake suspended at a KV await while the pairing is reset and a
\* peer is pinned again, vault unlocked.
NextRace ==
    \/ SetClientIdentityPublicKey
    \/ BeginHandshakeRead
    \/ BeginHandshakeResume
    \/ NmResetPairing
    \/ NmFinishHandshake

SpecRace == InitChannel /\ [][NextRace]_vars

\* The requests of the extension while the user switches the connection on
\* and off, vault unlocked.
NextGate ==
    \/ SetNativeMessagingEnabled
    \/ SetClientIdentityPublicKeyStep("E")
    \/ BeginHandshake
    \/ NmBeginHandshake
    \/ NmFinishHandshake
    \/ NmCloseSession
    \/ CheckExtensionPairingStatus
    \/ NmResetPairing

SpecGate == InitChannel /\ [][NextGate]_vars

\* Both directions of the data phase of the sessions of one pinned peer,
\* vault unlocked.
NextSeal ==
    \/ SetClientIdentityPublicKeyStep("E")
    \/ BeginHandshake
    \/ NmCloseSession
    \/ EncryptWithSession
    \/ DecryptWithSession

SpecSeal == InitChannel /\ [][NextSeal]_vars

\* Every session operation, on the few sessions of one pinned peer, vault
\* unlocked.
NextSession ==
    \/ SetClientIdentityPublicKeyStep("E")
    \/ BeginHandshakeFew
    \/ NmFinishHandshake
    \/ NmCloseSession
    \/ EncryptWithSession
    \/ DecryptWithSession
    \/ RecordIncomingSeq

SpecSession == InitChannel /\ [][NextSession]_vars

\* getPairingCode applied to 32-byte keys and secrets given chunk by chunk.
CodeBytes == {1, 2, 3}
Chunked == [a : CodeBytes, b : CodeBytes, c : CodeBytes]

GetPairingCodeStep(publicKey, secret) ==
    /\ last' = [op |-> "getPairingCode", publicKey |-> publicKey, secret |-> secret,
                val |-> getPairingCode(publicKey, secret)]
    /\ UNCHANGED <<kv, MEMORY_IDENTITY, localStorage, sessions, idCount, secretCount,
                   sidCount, locked, nmEnabled, shownCode, pending, pinning, components>>

GetPairingCode ==
    \E publicKey \in Chunked, secret \in Chunked : GetPairingCodeStep(publicKey, secret)

NextCode == GetPairingCode

SpecCode == InitChannel /\ [][NextCode]_vars

\* Pairing requests of several extensions interleaved at their awaits, the
\* vault locking and unlocking.
NextPin ==
    \/ Lock
    \/ Unlock
    \/ GetPairingToken
    \/ SetClientIdentityPublicKey
    \/ ConfirmClientPairing
    \/ NmGetAppIdentityCheck
    \/ NmGetAppIdentityPin

SpecPin == Init /\ [][NextPin]_vars

\* The identity store while the vault locks and unlocks, between calls and
\* during them.
NextPartial ==
    \/ Lock
    \/ Unlock
    \/ GetOrCreateIdentity
    \/ GetOrCreateIdentityAcross
    \/ NmResetPairing

SpecPartial == Init /\ [][NextPartial]_vars

\* Sessions opened, closed one by one and cleared by a reset, and the
\* requests of the extension on the ids that are closed or unknown, vault
\* unlocked.
\* The data-phase requests address ids that are not in the session table.
EncryptWithSessionStale ==
    \E sid \in SessionIds \ DOMAIN sessions, pt \in Plaintexts, nonce \in Nonces :
        EncryptWithSessionStep(sid, pt, nonce)

DecryptWithSessionStale ==
    \E sid \in SessionIds \ DOMAIN sessions, nonce \in Nonces, frame \in Frames :
        DecryptWithSessionStep(sid, nonce, frame)

RecordIncomingSeqStale ==
    \E sid \in SessionIds \ DOMAIN sessions, seq \in SeqValues :
        RecordIncomingSeqStep(sid, seq)

NextClosed ==
    \/ SetClientIdentityPublicKeyStep("E")
    \/ BeginHandshake
    \/ NmCloseSession
    \/ NmResetPairing
    \/ NmFinishHandshake
    \/ EncryptWithSessionStale
    \/ DecryptWithSessionStale
    \/ RecordIncomingSeqStale

SpecClosed == InitChannel /\ [][NextClosed]_vars

\* Handshakes of a pinned peer whose extension also sends points of small
\* order, the identity being in the vault or only in memory.
BeginHandshakeAnyKey ==
    \E ext \in ExtEphKeys \cup SmallOrderKeys :
        BeginHandshakeStep(ext) /\ sidCount' <= MaxSessions

NextEcdh ==
    \/ Lock
    \/ Unlock
    \/ GetOrCreateIdentity
    \/ SetClientIdentityPublicKeyStep("E")
    \/ BeginHandshakeAnyKey
    \/ NmCloseSession

SpecEcdh == Init /\ [][NextEcdh]_vars

\* ------------------------------------------------------- DeviceList actions
security == <<kv, locked, MEMORY_IDENTITY, localStorage, sessions, idCount,
              secretCount, sidCount, nmEnabled, shownCode, pending, pinning, last>>

\* A DeviceList mounted with any props.
InitDeviceList ==
    /\ InitSecurity
    /\ ~locked
    /\ aboutContent = NoFeedback
    /\ deviceList \in [value : SUBSET DeviceIds, readOnly : BOOLEAN,
                        currentDeviceId : DeviceIds \cup {NoDevice},
                        clicked : {NoDevice}, onChange : {NoChange}]

\* A click on the item of device id; the parent takes the array passed to
\* onChange as the new value (handleOptionChange).
ClickStep(id) ==
    LET r == onClick(deviceList, id)
    IN  /\ deviceList' = [deviceList EXCEPT !.clicked = id,
                                              !.onChange = r,
                                              !.value = IF r.called THEN r.next ELSE @]
        /\ UNCHANGED <<security, aboutContent>>

Click == \E id \in DeviceIds : ClickStep(id)

\* The parent moves between the selection step and the confirm step.
SetReadOnly ==
    /\ deviceList' = [deviceList EXCEPT !.readOnly = ~@]
    /\ UNCHANGED <<security, aboutContent>>

NextDeviceList ==
    \/ Click
    \/ SetReadOnly

SpecDeviceList == InitDeviceList /\ [][NextDeviceList]_vars

\* ----------------------------------------------------- AboutContent actions
\* An AboutContent just mounted, online or offline.
InitFeedback ==
    /\ InitSecurity
    /\ ~locked
    /\ deviceList = NoDeviceList
    /\ aboutContent \in {[NoFeedback EXCEPT !.online = o] : o \in BOOLEAN}

\* textAreaOnChange: the user edits the report.
SetMessage ==
    \E m \in Messages :
        /\ aboutContent' = [aboutContent EXCEPT !.message = m]
        /\ UNCHANGED <<security, deviceList>>

\* The connection comes or goes: what isOnline() answers changes.
ConnectionChanges ==
    /\ aboutContent' = [aboutContent EXCEPT !.online = ~@]
    /\ UNCHANGED <<security, deviceList>>

\* onSubmitReport: the user presses the send button.
HandleReportProblem ==
    /\ aboutContent' = handleReportProblem(aboutContent)
    /\ UNCHANGED <<security, deviceList>>

\* sendSlackFeedback and sendGoogleFormFeedback both resolve.
SendResolves ==
    /\ aboutContent.send = "pending"
    /\ aboutContent' = raceFulfilled(aboutContent)
    /\ UNCHANGED <<security, deviceList>>

\* One of the two sends rejects.
SendRejects ==
    /\ aboutContent.send = "pending"
    /\ aboutContent' = raceRejected(aboutContent, "send failed")
    /\ UNCHANGED <<security, deviceList>>

\* OFFLINE_TIMEOUT_MS after the submission its timer fires.
TimerFires ==
    /\ aboutContent.timer = "armed"
    /\ aboutContent' = timeoutCallback(aboutContent)
    /\ UNCHANGED <<security, deviceList>>

NextFeedback ==
    \/ SetMessage
    \/ ConnectionChanges
    \/ HandleReportProblem
    \/ SendResolves
    \/ SendRejects
    \/ TimerFires

\* The event loop runs every armed timer; nothing makes a send settle.
SpecFeedback == InitFeedback /\ [][NextFeedback]_vars /\ WF_vars(TimerFires)

\* ------------------------------------------------------------------ claims
\* The PeerRecord is the content of nm.client.data.
PeerRecord == kv.clientData

\* The desktop app shows the pairing code of the identity now persisted.
CorrectCodeShown ==
    /\ kv.ed25519 # 0
    /\ kv.pairingSecret # 0
    /\ shownCode = [text |-> getPairingCode(Bytes32(kv.ed25519),
                                            Bytes32(kv.pairingSecret)),
                    lower |-> FALSE]

\* The signature of peer key k over tag || sid || transcript of session sid.
ValidClientSig(k, sid) ==
    [signer |-> k, msg |-> clientTranscript(sid, sessions[sid].transcript),
     length |-> 64]

\* C1: on a fresh host with the vault unlocked and native messaging enabled,
\* getAppIdentity with the displayed pairing code and key E succeeds and pins
\* E as PENDING, beginHandshake then succeeds and returns a session id, and
\* finishHandshake with E's signature over tag || s || transcript returns
\* ok and leaves the session verified.
C1_HappyPath ==
    [][/\ \A key \in PeerKeys :
            (/\ ~locked /\ nmEnabled
             /\ CorrectCodeShown
             /\ PeerRecord = NoClientData
             /\ NmGetAppIdentityStep(shownCode, key))
            => /\ last'.code = "ok"
               /\ PeerRecord' = [publicKey |-> key,
                                 pairingState |-> PAIRING_STATES.PENDING]
       /\ \A ext \in ExtEphKeys :
            (/\ ~locked /\ nmEnabled
             /\ PeerRecord.publicKey # ""
             /\ NmBeginHandshakeStep(ext))
            => /\ last'.code = "ok"
               /\ last'.val.sessionId \in DOMAIN sessions' \ DOMAIN sessions
       /\ \A sid \in DOMAIN sessions :
            (/\ ~locked /\ nmEnabled
             /\ PeerRecord.publicKey # ""
             /\ NmFinishHandshakeStep(sid, ValidClientSig(PeerRecord.publicKey, sid)))
            => /\ last'.code = "ok"
               /\ sessions'[sid].clientVerified
      ]_vars

\* C2: the PeerRecord only moves absent -> PENDING, PENDING -> CONFIRMED
\* (same key) and, by an identity reset, back to absent; a CONFIRMED record
\* is never moved back to PENDING, pinning its key again changes nothing.
C2_PeerRecordTransitions ==
    [][\/ PeerRecord' = PeerRecord
       \/ /\ PeerRecord = NoClientData
          /\ PeerRecord'.pairingState = PAIRING_STATES.PENDING
       \/ /\ PeerRecord.pairingState = PAIRING_STATES.PENDING
          /\ PeerRecord' = [PeerRecord EXCEPT !.pairingState = PAIRING_STATES.CONFIRMED]
       \/ /\ PeerRecord' = NoClientData
          /\ last'.op = "nmResetPairing"
      ]_vars

\* C3: whenever the localStorage peer-key slot is non-empty, the PeerRecord
\* holds the same key in state CONFIRMED.
C3_CacheOnlyConfirmed ==
    localStorage # "" =>
        PeerRecord = [publicKey |-> localStorage,
                      pairingState |-> PAIRING_STATES.CONFIRMED]

\* C4: with a PeerRecord for K, getAppIdentity with the correct pairing code
\* and another key fails with ClientAlreadyPaired (PeerAlreadyPaired) and
\* leaves the PeerRecord and localStorage as they were.
C4_SecondPeerRejected ==
    [][\A key \in PeerKeys :
            (/\ ~locked
             /\ CorrectCodeShown
             /\ PeerRecord.publicKey # ""
             /\ PeerRecord.publicKey # key
             /\ NmGetAppIdentityStep(shownCode, key))
            => /\ last'.code = "ClientAlreadyPaired"
               /\ PeerRecord' = PeerRecord
               /\ localStorage' = localStorage
      ]_vars

\* The pairing code getAppIdentity expects: that of the identity the store
\* reports and of the stored pairing secret (none while there is no secret).
IsExpectedToken(token) ==
    LET id == getOrCreateIdentity(World, locked).val.ed25519PublicKey
        secret == kv.pairingSecret
    IN  /\ secret # 0
        /\ toUpperCase(token).text = getPairingCode(Bytes32(id), Bytes32(secret))

\* C5: getAppIdentity with a non-empty token other than the expected code
\* fails with InvalidPairingToken and leaves PeerRecord and localStorage.
C5_WrongTokenRejected ==
    [][\A token \in Tokens, key \in PeerKeys :
            (/\ token.text # <<>>
             /\ ~IsExpectedToken(token)
             /\ NmGetAppIdentityStep(token, key))
            => /\ last'.code = "InvalidPairingToken"
               /\ PeerRecord' = PeerRecord
               /\ localStorage' = localStorage
      ]_vars

\* C6: confirmPeer(K) succeeds only on a PeerRecord with key K (none:
\* NoPendingPairing, another key: ClientKeyMismatch), a success leaves the
\* record CONFIRMED and localStorage = K, and every failure leaves the
\* PeerRecord and localStorage unchanged.
C6_ConfirmGate ==
    [][\A key \in PeerKeys, lkWrite \in BOOLEAN :
            ConfirmClientPairingStep(key, lkWrite)
            => /\ last'.code = "ok" =>
                    /\ PeerRecord.publicKey = key
                    /\ PeerRecord' = [publicKey |-> key,
                                      pairingState |-> PAIRING_STATES.CONFIRMED]
                    /\ localStorage' = key
               /\ last'.code # "ok" =>
                    /\ PeerRecord' = PeerRecord
                    /\ localStorage' = localStorage
               /\ encryptionGet(World, locked, ENC_KEY_CLIENT_DATA) = NoClientData
                    => last'.code = "NoPendingPairing"
               /\ encryptionGet(World, locked, ENC_KEY_CLIENT_DATA).publicKey
                        \notin {"", key}
                    => last'.code = "ClientKeyMismatch"
      ]_vars

\* C7: after resetPairing, whether the vault is locked or not, no session
\* is left, the PeerRecord is absent, localStorage is empty and the identity
\* returned has keys other than every identity that existed before.
C7_ResetWipes ==
    [][NmResetPairing
        => /\ DOMAIN sessions' = {}
           /\ PeerRecord' = NoClientData
           /\ localStorage' = ""
           /\ last'.val.ed25519PublicKey \notin {kv.ed25519, MEMORY_IDENTITY}
           /\ last'.val.x25519PublicKey \notin {kv.x25519, MEMORY_IDENTITY}
      ]_vars

\* C8: on a live session recordIncomingSeq(seq) with a finite number accepts
\* exactly when seq > lastRecvSeq and then sets lastRecvSeq to seq; otherwise
\* it fails with ReplayDetected and leaves lastRecvSeq; no request lowers
\* lastRecvSeq, so accepted values strictly increase and none is accepted twice.
C8_RecordIncomingSeq ==
    [][/\ \A sid \in DOMAIN sessions, seq \in SeqValues :
            (isFiniteNumber(seq) /\ RecordIncomingSeqStep(sid, seq))
            => IF seq.v > sessions[sid].lastRecvSeq
               THEN /\ last'.code = "ok"
                    /\ sessions'[sid].lastRecvSeq = seq.v
               ELSE /\ last'.code = "ReplayDetected"
                    /\ sessions' = sessions
       /\ \A sid \in DOMAIN sessions \cap DOMAIN sessions' :
            /\ sessions'[sid].lastRecvSeq >= sessions[sid].lastRecvSeq
            /\ (last'.op = "recordIncomingSeq" /\ last'.code = "ok" /\ last'.sid = sid)
                    => sessions'[sid].lastRecvSeq > sessions[sid].lastRecvSeq
      ]_vars

\* A seq is rejected as a replay on a session that accepted one before.
C8_Witness ==
    /\ last.op = "recordIncomingSeq"
    /\ last.code = "ReplayDetected"
    /\ last.sid \in DOMAIN sessions
    /\ sessions[last.sid].lastRecvSeq > 0

\* C9: open enforces replay protection itself: a frame that was opened
\* successfully is not opened successfully again on the same session.
C9_OpenRejectsReplay ==
    ~(/\ last.op = "decryptWithSession"
      /\ last.code = "ok"
      /\ last.again)

\* C10: a session becomes verified only by a finishHandshake whose signature
\* verifies under the pinned peer key over tag || its own sessionId ||
\* transcript; sessions are created unverified.
C10_VerifiedOnlyBySignature ==
    [][/\ \A sid \in DOMAIN sessions \cap DOMAIN sessions' :
            (~sessions[sid].clientVerified /\ sessions'[sid].clientVerified)
            => \E sig \in ClientSigs :
                /\ NmFinishHandshakeStep(sid, sig)
                /\ PeerRecord.publicKey # ""
                /\ crypto_sign_verify_detached(
                       sig, clientTranscript(sid, sessions[sid].transcript),
                       PeerRecord.publicKey)
       /\ \A sid \in DOMAIN sessions' \ DOMAIN sessions :
            ~sessions'[sid].clientVerified
      ]_vars

\* finishHandshake was called on a live session of a paired host with the
\* pinned peer's signature made for another session id, and the session is
\* not verified.
C10_Witness ==
    /\ last.op = "nmFinishHandshake"
    /\ last.sid \in DOMAIN sessions
    /\ PeerRecord.publicKey # ""
    /\ \E other \in SessionIds \ {last.sid} :
            last.sig = [signer |-> PeerRecord.publicKey,
                        msg |-> clientTranscript(other, sessions[last.sid].transcript),
                        length |-> 64]
    /\ ~sessions[last.sid].clientVerified

\* C11: finishHandshake with a 64-byte signature that does not verify, on a
\* live unverified session of a paired host, fails with ClientSignatureInvalid
\* (PeerSignatureInvalid) and removes the session.
C11_BadSignatureClosesSession ==
    [][\A sid \in DOMAIN sessions, sig \in ClientSigs :
            (/\ ~sessions[sid].clientVerified
             /\ PeerRecord.publicKey # ""
             /\ sig.length = 64
             /\ ~crypto_sign_verify_detached(
                    sig, clientTranscript(sid, sessions[sid].transcript),
                    PeerRecord.publicKey)
             /\ NmFinishHandshakeStep(sid, sig))
            => /\ last'.code = "ClientSignatureInvalid"
               /\ sid \notin DOMAIN sessions'
      ]_vars

\* C12: every failure of finishHandshake on an existing, unverified session
\* (the request names the session and carries a signature) removes that
\* session from the session table.
C12_EveryFailureClosesSession ==
    [][\A sid \in DOMAIN sessions, sig \in ClientSigs \ {NoSignature} :
            (/\ ~sessions[sid].clientVerified
             /\ NmFinishHandshakeStep(sid, sig)
             /\ last'.code # "ok")
            => sid \notin DOMAIN sessions'
      ]_vars

\* The peer key a session's transcript embeds: its last field.
TranscriptPeerKey(session) == session.transcript[Len(session.transcript)]

C15_DisabledRefusesAll ==
    [][(/\ ~nmEnabled
        /\ \/ \E ext \in ExtEphKeys : NmBeginHandshakeStep(ext)
           \/ \E sid \in DOMAIN sessions, sig \in ClientSigs \ {NoSignature} :
                    NmFinishHandshakeStep(sid, sig)
           \/ \E sid \in DOMAIN sessions : NmCloseSessionStep(sid)
           \/ \E key \in PeerKeys : CheckExtensionPairingStatusStep(key)
           \/ NmResetPairing)
       => /\ last'.code = "NativeMessagingDisabled"
          /\ UNCHANGED <<kv, MEMORY_IDENTITY, localStorage, sessions>>
      ]_vars

\* C16: beginHandshake with native messaging enabled fails with NotPaired and
\* leaves the session table when there is no PeerRecord, and creates a session
\* when a peer is pinned, PENDING or CONFIRMED alike.
C16_BeginNeedsPinnedPeerOnly ==
    [][\A ext \in ExtEphKeys :
            (nmEnabled /\ ~locked /\ NmBeginHandshakeStep(ext))
            => IF PeerRecord.publicKey = ""
               THEN /\ last'.code = "NotPaired"
                    /\ sessions' = sessions
               ELSE /\ last'.code = "ok"
                    /\ last'.val.sessionId \in DOMAIN sessions' \ DOMAIN sessions
      ]_vars

\* C17: on every successful beginHandshake, on the KV path and on the memory
\* path, the transcript kept in the new session is hostEphPub || extEphPub ||
\* the pinned peer key, and the returned signature is 64 bytes that verify over
\* that transcript under the Ed25519 public key getOrCreateIdentity reports
\* in the state the request leaves.
C17_TranscriptSignedByIdentity ==
    [][\A ext \in ExtEphKeys :
            (BeginHandshakeStep(ext) /\ last'.code = "ok")
            => LET sid == last'.val.sessionId
                   transcript == <<last'.val.hostEphemeralPubB64, ext,
                                   getClientIdentityPublicKey(World, locked, TheClient).val>>
               IN  /\ sid \in DOMAIN sessions' \ DOMAIN sessions
                   /\ sessions'[sid].transcript = transcript
                   /\ last'.val.signatureB64.length = 64
                   /\ crypto_sign_verify_detached(
                          last'.val.signatureB64, transcript,
                          (getOrCreateIdentity(World, locked).val.ed25519PublicKey)')
      ]_vars

\* A handshake has succeeded on the memory path: no identity in the vault,
\* the identity held in memory signed the transcript of the new session.
C17_Witness ==
    /\ last.op = "beginHandshake"
    /\ last.code = "ok"
    /\ ~locked
    /\ kv[ENC_KEY_ED25519] = 0
    /\ MEMORY_IDENTITY # 0
    /\ last.val.sessionId \in DOMAIN sessions
    /\ last.val.signatureB64.signer = MEMORY_IDENTITY

\* C18: of two consecutive getOrCreateIdentity calls with no reset in between
\* (the vault may lock or unlock between them), the second returns the Ed25519
\* and X25519 public keys of the first and generates no keypair: with the
\* vault unlocked at both calls, locked at both, or locked at the first and
\* unlocked at the second.
C18_IdentityIdempotent ==
    [][(/\ last.op = "getOrCreateIdentity"
        /\ (last.lk \/ ~locked)
        /\ GetOrCreateIdentity)
       => /\ last'.val.ed25519PublicKey = last.val.ed25519PublicKey
          /\ last'.val.x25519PublicKey = last.val.x25519PublicKey
          /\ ~last'.val.generated
      ]_vars

\* C19: getOrCreateIdentity with the vault locked (reads and writes failing)
\* raises no error, returns the public keys of an identity, and that identity
\* is held in the memory cache afterwards.
C19_LockedIdentityInMemory ==
    [][(locked /\ GetOrCreateIdentity)
       => /\ last'.code = "ok"
          /\ last'.val.ed25519PublicKey # 0
          /\ last'.val.x25519PublicKey # 0
          /\ MEMORY_IDENTITY' # 0
          /\ MEMORY_IDENTITY' = last'.val.ed25519PublicKey
      ]_vars

\* A locked call has generated an identity that the vault does not hold.
C19_Witness ==
    /\ last.op = "getOrCreateIdentity"
    /\ last.lk
    /\ last.val.generated
    /\ MEMORY_IDENTITY = last.val.ed25519PublicKey
    /\ kv[ENC_KEY_ED25519] # MEMORY_IDENTITY

\* C20: with the vault locked, obtaining the pairing code succeeds and shows
\* a code, and a getAppIdentity carrying the code just obtained succeeds: no
\* persistence error reaches the caller.
C20_LockedPairingSucceeds ==
    [][/\ (locked /\ GetPairingToken)
          => /\ last'.code = "ok"
             /\ shownCode'.text # <<>>
       /\ \A key \in PeerKeys :
             (/\ locked
              /\ last.op = "getPairingToken"
              /\ last.code = "ok"
              /\ NmGetAppIdentityStep(shownCode, key))
             => last'.code = "ok"
      ]_vars

\* C21: getOrCreateIdentity on a readable vault with any of the persisted
\* identity fields missing (Ed25519 blob, X25519 blob, creation date, pairing
\* secret) and nothing held in memory generates fresh keypairs: it returns no
\* identity assembled from a partially persisted state.
C21_PartialStateRegenerates ==
    [][(/\ ~locked
        /\ MEMORY_IDENTITY = 0
        /\ \/ kv[ENC_KEY_ED25519] = 0
           \/ kv[ENC_KEY_X25519] = 0
           \/ kv[ENC_KEY_CREATION_DATE] = 0
           \/ kv[ENC_KEY_PAIRING_SECRET] = 0
        /\ GetOrCreateIdentity)
       => last'.val.generated
      ]_vars

\* C22: getOrCreateIdentity on a readable vault holding both keypair blobs
\* generates no keypair, writes nothing to the vault, also when no pairing
\* secret is stored, and returns the stored public keys and creation date.
C22_StoredIdentityNoWrite ==
    [][(/\ ~locked
        /\ kv[ENC_KEY_ED25519] # 0
        /\ kv[ENC_KEY_X25519] # 0
        /\ GetOrCreateIdentity)
       => /\ ~last'.val.generated
          /\ kv' = kv
          /\ last'.val.ed25519PublicKey = kv[ENC_KEY_ED25519]
          /\ last'.val.x25519PublicKey = kv[ENC_KEY_X25519]
          /\ kv[ENC_KEY_CREATION_DATE] # 0
                => last'.val.creationDate = kv[ENC_KEY_CREATION_DATE]
      ]_vars

\* C23: checkExtensionPairingStatus(K) with native messaging enabled answers
\* from the unprotected cache: it succeeds, vault locked or unlocked, and
\* reports paired exactly when localStorage holds K (a CONFIRMED peer).
C23_StatusFromCache ==
    [][\A key \in PeerKeys :
            (nmEnabled /\ CheckExtensionPairingStatusStep(key))
            => /\ last'.code = "ok"
               /\ last'.paired = (getCachedClientIdentityPublicKey(World) = key)
      ]_vars

\* C24: a data-phase cryptographic failure closes the session it happened
\* on: after decryptWithSession fails with DecryptFailed or ReplayDetected,
\* or recordIncomingSeq fails with ReplayDetected, the session is no longer
\* in the session table.
C24_CryptoFailureClosesSession ==
    [][/\ \A sid \in DOMAIN sessions, nonce \in Nonces, frame \in Frames :
             (/\ DecryptWithSessionStep(sid, nonce, frame)
              /\ last'.code \in {"DecryptFailed", "ReplayDetected"})
             => sid \notin DOMAIN sessions'
       /\ \A sid \in DOMAIN sessions, seq \in SeqValues :
             (/\ RecordIncomingSeqStep(sid, seq)
              /\ last'.code = "ReplayDetected")
             => sid \notin DOMAIN sessions'
      ]_vars

\* C25: nmFinishHandshake, nmCloseSession, encryptWithSession,
\* decryptWithSession and recordIncomingSeq, succeeding or failing, leave the
\* identity keys, the pairing secret, the PeerRecord, the memory identity and
\* the unprotected cache unchanged.
C25_SessionOpsLeaveIdentity ==
    [][(\/ \E sid \in SessionIds \cup {NoSession}, sig \in ClientSigs :
              NmFinishHandshakeStep(sid, sig)
        \/ \E sid \in SessionIds \cup {NoSession} : NmCloseSessionStep(sid)
        \/ \E sid \in SessionIds, pt \in Plaintexts, nonce \in Nonces :
              EncryptWithSessionStep(sid, pt, nonce)
        \/ \E sid \in SessionIds, nonce \in Nonces, frame \in Frames :
              DecryptWithSessionStep(sid, nonce, frame)
        \/ \E sid \in SessionIds, seq \in SeqValues : RecordIncomingSeqStep(sid, seq))
       => UNCHANGED <<kv, MEMORY_IDENTITY, localStorage, idCount, secretCount>>
      ]_vars

\* A session of a paired host has been closed, the identity and the
\* PeerRecord being in the vault.
C25_Witness ==
    /\ last.op = "nmCloseSession"
    /\ last.code = "ok"
    /\ last.sid \notin DOMAIN sessions
    /\ last.sid <= sidCount
    /\ kv[ENC_KEY_ED25519] # 0
    /\ kv[ENC_KEY_PAIRING_SECRET] # 0
    /\ PeerRecord.publicKey = "E"

\* C28: decryptWithSession applied, on the same session, to the nonce and
\* the ciphertext a successful encryptWithSession has just returned yields
\* the plaintext that was sealed.
C28_RoundTrip ==
    [][\A sid \in DOMAIN sessions :
            (/\ last.op = "encryptWithSession"
             /\ last.code = "ok"
             /\ last.sid = sid
             /\ DecryptWithSessionStep(sid, last.val.nonce, last.val.ciphertext))
            => /\ last'.code = "ok"
               /\ last'.val = last.pt
      ]_vars

\* A frame has been opened right after the seal that produced it.
C28_Witness ==
    /\ last.op = "decryptWithSession"
    /\ last.sealed
    /\ last.code = "ok"
    /\ last.val \in Plaintexts
    /\ sessions[last.sid].sendSeq > sessions[last.sid].lastRecvSeq

\* C29: a successful encryptWithSession increments the sendSeq of its session
\* by one and returns the new value (1, 2, 3, ... from the 0 of a new
\* session) and touches no other session; one that fails with
\* SessionNotFound changes no session.
C29_SendSeqCounts ==
    [][\A sid \in SessionIds, pt \in Plaintexts, nonce \in Nonces :
            EncryptWithSessionStep(sid, pt, nonce)
            => IF sid \in DOMAIN sessions
               THEN /\ last'.code = "ok"
                    /\ last'.val.seq = sessions[sid].sendSeq + 1
                    /\ sessions' = [sessions EXCEPT ![sid].sendSeq = last'.val.seq]
               ELSE /\ last'.code = "SessionNotFound"
                    /\ sessions' = sessions
      ]_vars

\* The second seal on a session has returned 2.
C29_Witness ==
    /\ last.op = "encryptWithSession"
    /\ last.code = "ok"
    /\ last.val.seq = 2
    /\ sessions[last.sid].sendSeq = 2

\* Two 32-byte values that differ in bytes of one chunk only.
DiffersInOneChunk(u, v) ==
    Cardinality({f \in {"a", "b", "c"} : u[f] # v[f]}) = 1

\* C26: the hash input of getPairingCode is tag || secret || publicKey, each
\* field whole at its own offset; so of two consecutive calls, equal inputs
\* give equal codes, and inputs that differ in one place of the secret or of
\* the public key give different hash inputs.
C26_PairingCodePreimage ==
    [][\A publicKey \in Chunked, secret \in Chunked :
            (last.op = "getPairingCode" /\ GetPairingCodeStep(publicKey, secret))
            => /\ last'.val = <<PAIRING_CODE_TAG, <<secret.a>>, <<secret.b, secret.c>>,
                                <<publicKey.a>>, <<publicKey.b, publicKey.c>>>>
               /\ (publicKey = last.publicKey /\ secret = last.secret)
                     => last'.val = last.val
               /\ (\/ publicKey = last.publicKey /\ DiffersInOneChunk(secret, last.secret)
                   \/ secret = last.secret /\ DiffersInOneChunk(publicKey, last.publicKey))
                     => last'.val # last.val
      ]_vars

C30_ConcurrentSecondPeerRejected ==
    [][\A key \in PeerKeys :
            (/\ ~locked
             /\ PeerRecord.publicKey \in PeerKeys \ {key}
             /\ PeerRecord.pairingState = PAIRING_STATES.PENDING
             /\ NmGetAppIdentityPinStep(key))
            => /\ last'.code = "ClientAlreadyPaired"
               /\ PeerRecord' = PeerRecord
      ]_vars

\* The session ids handed out that are no longer in the session table.
ClosedSessions == (1..sidCount) \ DOMAIN sessions

\* C31: a session id that was closed (by closeSession or by the
\* clearAllSessions of a reset) is never live again, and every later
\* finishHandshake (carrying a signature), seal, open or recordIncomingSeq on
\* it fails with SessionNotFound and changes no state; closeSession on an id
\* that is not live (closed or never handed out) returns ok and leaves the
\* session table as it was.
C31_ClosedStaysClosed ==
    [][/\ \A sid \in ClosedSessions :
            /\ sid \notin DOMAIN sessions'
            /\ (\/ \E sig \in ClientSigs \ {NoSignature} : NmFinishHandshakeStep(sid, sig)
                \/ \E pt \in Plaintexts, nonce \in Nonces :
                        EncryptWithSessionStep(sid, pt, nonce)
                \/ \E nonce \in Nonces, frame \in Frames :
                        DecryptWithSessionStep(sid, nonce, frame)
                \/ \E seq \in SeqValues : RecordIncomingSeqStep(sid, seq))
               => /\ last'.code = "SessionNotFound"
                  /\ UNCHANGED <<kv, MEMORY_IDENTITY, localStorage, sessions, idCount,
                                 secretCount, sidCount>>
       /\ \A sid \in SessionIds \ DOMAIN sessions :
            NmCloseSessionStep(sid)
            => /\ last'.code = "ok"
               /\ UNCHANGED <<kv, MEMORY_IDENTITY, localStorage, sessions, idCount,
                              secretCount, sidCount>>
      ]_vars

\* A request on a session closed before was refused while a session opened
\* after it is live.
C31_Witness ==
    /\ last.op \in {"nmFinishHandshake", "encryptWithSession", "decryptWithSession",
                    "recordIncomingSeq"}
    /\ last.code = "SessionNotFound"
    /\ last.sid \in ClosedSessions
    /\ \E other \in DOMAIN sessions : other > last.sid

\* The state a request can read or write.
ProgramState == <<kv, MEMORY_IDENTITY, localStorage, sessions, idCount, secretCount,
                  sidCount>>

\* C32: a request with a missing required parameter fails with the error of
\* that parameter (PairingTokenRequired, ClientPublicKeyRequired,
\* MissingEphemeralPublicKey, MissingSessionId, MissingClientSignature)
\* whatever the pairing, session and KV state, and changes nothing; so
\* beginHandshake without extEphemeralPubB64 fails with
\* MissingEphemeralPublicKey whether or not a peer is pinned.
C32_MissingParameterFirst ==
    [][/\ \A token \in Tokens, key \in PeerKeys \cup {""} :
            (token.text = <<>> /\ NmGetAppIdentityStep(token, key))
            => last'.code = "PairingTokenRequired" /\ UNCHANGED ProgramState
       /\ \A token \in Tokens :
            (token.text # <<>> /\ NmGetAppIdentityStep(token, ""))
            => last'.code = "ClientPublicKeyRequired" /\ UNCHANGED ProgramState
       /\ (nmEnabled /\ NmBeginHandshakeStep(""))
            => last'.code = "MissingEphemeralPublicKey" /\ UNCHANGED ProgramState
       /\ \A sig \in ClientSigs :
            NmFinishHandshakeStep(NoSession, sig)
            => last'.code = "MissingSessionId" /\ UNCHANGED ProgramState
       /\ \A sid \in SessionIds :
            NmFinishHandshakeStep(sid, NoSignature)
            => last'.code = "MissingClientSignature" /\ UNCHANGED ProgramState
       /\ NmCloseSessionStep(NoSession)
            => last'.code = "MissingSessionId" /\ UNCHANGED ProgramState
      ]_vars

\* C33: in a DeviceList given a currentDeviceId, every onChange payload
\* emitted by a click contains currentDeviceId, a click on the current device
\* emits no onChange, and in readOnly mode no click emits onChange.
C33_CurrentDeviceStaysSelected ==
    [][\A id \in DeviceIds :
            ClickStep(id)
            => /\ (deviceList.currentDeviceId # NoDevice /\ deviceList'.onChange.called)
                    => deviceList.currentDeviceId \in deviceList'.onChange.next
               /\ (deviceList.currentDeviceId # NoDevice /\ id = deviceList.currentDeviceId)
                    => ~deviceList'.onChange.called
               /\ deviceList.readOnly => ~deviceList'.onChange.called
      ]_vars

\* A click on another device has emitted a payload that holds the current
\* device and no longer the device clicked.
C33_Witness ==
    /\ deviceList.onChange.called
    /\ deviceList.currentDeviceId # NoDevice
    /\ deviceList.clicked # deviceList.currentDeviceId
    /\ deviceList.clicked \notin deviceList.onChange.next
    /\ deviceList.currentDeviceId \in deviceList.onChange.next

\* The first failing check of finishHandshake in the order of the claim, on
\* the request (sid, sig) in the current state; "ok" when none fails.
FirstFailingCheck(sid, sig) ==
    IF sid = NoSession THEN "MissingSessionId"
    ELSE IF sig = NoSignature THEN "MissingClientSignature"
    ELSE IF sid \notin DOMAIN sessions THEN "SessionNotFound"
    ELSE IF sessions[sid].clientVerified THEN "ok"
    ELSE IF PeerRecord.publicKey = "" THEN "ClientNotPaired"
    ELSE IF clientPubLength(PeerRecord.publicKey) # 32 THEN "InvalidClientPublicKey"
    ELSE IF sig.length # 64 THEN "InvalidClientSignature"
    ELSE IF sessions[sid].transcript = <<>> THEN "InvalidTranscript"
    ELSE IF ~crypto_sign_verify_detached(
                 sig, clientTranscript(sid, sessions[sid].transcript),
                 PeerRecord.publicKey)
    THEN "ClientSignatureInvalid"
    ELSE "ok"

\* C34: finishHandshake reports the first failing check in the order
\* MissingSessionId, MissingClientSignature, SessionNotFound, then (unless
\* the session is verified already) ClientNotPaired (PeerNotPaired),
\* InvalidClientPublicKey, InvalidClientSignature, InvalidTranscript and
\* last ClientSignatureInvalid (PeerSignatureInvalid), with the vault
\* unlocked.
C34_FinishCheckOrder ==
    [][\A sid \in SessionIds \cup {NoSession}, sig \in ClientSigs :
            (~locked /\ NmFinishHandshakeStep(sid, sig))
            => last'.code = FirstFailingCheck(sid, sig)
      ]_vars

\* A finite non-negative integer: a number with an even, non-negative count
\* of halves.
IsNonNegativeInteger(seq) == isFiniteNumber(seq) /\ seq.v >= 0 /\ seq.v % 2 = 0

\* C35: recordIncomingSeq on a live session rejects with InvalidSeq every seq
\* that is not a finite non-negative integer (non-numbers, NaN, infinities,
\* negative numbers, non-integers) and leaves the session as it was; so
\* lastRecvSeq only ever holds non-negative integers.
C35_InvalidSeqRejected ==
    [][/\ \A sid \in DOMAIN sessions, seq \in SeqValues :
            (~IsNonNegativeInteger(seq) /\ RecordIncomingSeqStep(sid, seq))
            => /\ last'.code = "InvalidSeq"
               /\ sessions' = sessions
       /\ \A sid \in DOMAIN sessions' :
            IsNonNegativeInteger(Num(sessions'[sid].lastRecvSeq))
      ]_vars

C38_ResetAtomic ==
    (pending = "" /\ pinning = {})
    => /\ \A sid \in DOMAIN sessions :
            TranscriptPeerKey(sessions[sid]) = PeerRecord.publicKey
       /\ localStorage \in {"", PeerRecord.publicKey}

\* C39: encryptWithSession and decryptWithSession succeed only on a session
\* whose clientVerified (peerVerified) flag is true: no payload is sealed or
\* opened under a session key before finishHandshake has verified the peer's
\* signature for that session.
C39_DataPhaseNeedsVerifiedPeer ==
    [][/\ \A sid \in SessionIds, pt \in Plaintexts, nonce \in Nonces :
            (EncryptWithSessionStep(sid, pt, nonce) /\ last'.code = "ok")
            => sid \in DOMAIN sessions /\ sessions[sid].clientVerified
       /\ \A sid \in SessionIds, nonce \in Nonces, frame \in Frames :
            (DecryptWithSessionStep(sid, nonce, frame) /\ last'.code = "ok")
            => sid \in DOMAIN sessions /\ sessions[sid].clientVerified
      ]_vars

\* C40: every feedback submission of AboutContent that starts sending
\* eventually returns isLoading to false: on success, on a send error, when
\* the connection drops during the send, and also when the send never
\* completes while the app stays online.
C40_LoadingEventuallyEnds ==
    aboutContent.isLoading ~> ~aboutContent.isLoading

====
